---- MODULE Spec2Model ----
(***************************************************************************)
(* Research execution scheduler of cadence                                 *)
(* (skill/scripts/run-research-pass.py, skill/scripts/ideation_research.py)*)
(*                                                                         *)
(* The persisted document .cadence/cadence.json is the state.  Every       *)
(* command is one atomic read-modify-write of it: load_state (which        *)
(* re-normalizes ideation.research_execution), the handler, save_state.    *)
(*                                                                         *)
(* Abstractions: lists that are only ever measured (research_questions,    *)
(* keywords, related_entities of a topic) are kept as their length; note   *)
(* texts are kept as (kind, number) records; timestamps, titles and        *)
(* summaries are left out; a pass id "pass-r{round}-{index:02d}" is the    *)
(* pair <<round, index>>; the size of a serialized pass is CharsPerTopic    *)
(* characters per topic.  In Spec the route guard and                      *)
(* require_ideation_ready are taken to pass (the workflow routes to the    *)
(* researcher skill, ideation is complete and the agenda has topics).      *)
(*                                                                         *)
(* WorkflowSpec checks the workflow plan (workflow_state.py), RouteSpec    *)
(* the route guard in front of the commands (assert-workflow-route.py),    *)
(* and AgendaSpec the ingestion of an ideation payload, with and without   *)
(* the auto-repair of run-brownfield-documentation.py.  TotalCapSpec takes *)
(* the scheduler up late in a long run, next to max_total_passes; PlanSpec *)
(* checks a plan that holds a task at top level; CallerSpec is a caller    *)
(* that keeps alternating start and complete, under weak fairness.         *)
(***************************************************************************)
EXTENDS Integers, Sequences, FiniteSets, TLC

\* ------------------------------------------------------------------ bounds
\* passes that may be archived before the model stops starting new ones
MaxHistory == 3

\* ------------------------------------------------------- small arithmetic
Max2(a, b) == IF a >= b THEN a ELSE b

Min2(a, b) == IF a <= b THEN a ELSE b

CeilDiv(n, d) == (n + d - 1) \div d

\* F applied to a value that is worked out once, as a statement of the script
\* works on the value the statement before it left
Bind(value, F(_)) == CHOOSE applied \in {F(bound) : bound \in {value}} : TRUE

SetMax(S) == CHOOSE x \in S : \A y \in S : y <= x

Range(s) == {s[i] : i \in 1..Len(s)}

RECURSIVE SelectSeqIdx(_, _, _)
\* the subsequence of s (from index i on) whose elements are in keep
SelectSeqIdx(s, i, keep) ==
  IF i > Len(s) THEN <<>>
  ELSE (IF s[i] \in keep THEN <<s[i]>> ELSE <<>>) \o SelectSeqIdx(s, i + 1, keep)

\* ----------------------------------------------------------------- agenda
Topics == {"topic-a", "topic-b", "topic-c"}

\* Python string order of the topic ids
TopicRank(t) == CASE t = "topic-a" -> 1 [] t = "topic-b" -> 2 [] OTHER -> 3

\* The agendas the model draws from: priority and list lengths per topic.
AgendaLight ==
  [t \in Topics |->
     CASE t = "topic-a" -> [priority |-> "high", research_questions |-> 1,
                            keywords |-> 0, related_entities |-> 0]
       [] t = "topic-b" -> [priority |-> "medium", research_questions |-> 1,
                            keywords |-> 0, related_entities |-> 0]
       [] OTHER         -> [priority |-> "low", research_questions |-> 0,
                            keywords |-> 0, related_entities |-> 0]]

AgendaHeavy ==
  [t \in Topics |->
     CASE t = "topic-a" -> [priority |-> "medium", research_questions |-> 2,
                            keywords |-> 0, related_entities |-> 0]
       [] t = "topic-b" -> [priority |-> "high", research_questions |-> 4,
                            keywords |-> 5, related_entities |-> 3]
       [] OTHER         -> [priority |-> "medium", research_questions |-> 2,
                            keywords |-> 1, related_entities |-> 0]]

topic_effort(topic) ==
  LET priority_weight == CASE topic.priority = "low" -> 1
                           [] topic.priority = "medium" -> 2
                           [] topic.priority = "high" -> 3
                           [] OTHER -> 2
      question_weight == CeilDiv(topic.research_questions, 2)
      keyword_weight == CeilDiv(topic.keywords, 4)
      entity_weight == Min2(2, topic.related_entities)
  IN Max2(1, 1 + priority_weight + question_weight + keyword_weight + entity_weight)

\* --------------------------------------------------------------- planning
coerce_positive_int(value, minimum) == IF value < minimum THEN minimum ELSE value

coerce_percent_int(value, minimum, maximum) ==
  LET number == coerce_positive_int(value, minimum)
  IN IF number > maximum THEN maximum ELSE number

PlanningDefaults ==
  [target_effort_per_pass |-> 12, max_topics_per_pass |-> 4,
   max_passes_per_topic |-> 3, max_total_passes |-> 120,
   max_passes_per_chat |-> 6, context_window_tokens |-> 128000,
   handoff_context_threshold_percent |-> 70,
   estimated_fixed_tokens_per_chat |-> 12000,
   estimated_tokens_in_overhead_per_pass |-> 1200,
   estimated_tokens_out_overhead_per_pass |-> 400,
   latest_round |-> 0]

PlanningMinimum ==
  [target_effort_per_pass |-> 1, max_topics_per_pass |-> 1,
   max_passes_per_topic |-> 1, max_total_passes |-> 1,
   max_passes_per_chat |-> 1, context_window_tokens |-> 1000,
   handoff_context_threshold_percent |-> 1,
   estimated_fixed_tokens_per_chat |-> 0,
   estimated_tokens_in_overhead_per_pass |-> 0,
   estimated_tokens_out_overhead_per_pass |-> 0,
   latest_round |-> 0]

\* planning.get(key, default): the planning block may lack keys
PlanningGet(planning, key) ==
  IF key \in DOMAIN planning THEN planning[key] ELSE PlanningDefaults[key]

planning_config(planning) ==
  [key \in DOMAIN PlanningDefaults |->
     IF key = "handoff_context_threshold_percent"
     THEN coerce_percent_int(PlanningGet(planning, key), PlanningMinimum[key], 95)
     ELSE coerce_positive_int(PlanningGet(planning, key), PlanningMinimum[key])]

context_threshold_tokens(config) ==
  Max2(1, (config.context_window_tokens * config.handoff_context_threshold_percent) \div 100)

\* ------------------------------------------------------------ topic state
TOPIC_COMPLETE_STATUSES == {"complete", "complete_with_caveats"}

TOPIC_ACTIVE_STATUSES == {"pending", "in_progress", "needs_followup"}

PASS_RESULT_TOPIC_STATUSES == {"complete", "complete_with_caveats", "needs_followup"}

RESEARCH_TOPIC_STATUSES == {"pending", "in_progress", "needs_followup", "complete"}

unresolved_topics(execution) ==
  {t \in DOMAIN execution.topic_status :
     execution.topic_status[t].status \in TOPIC_ACTIVE_STATUSES}

\* --------------------------------------------------- load (normalization)
\* Value of a document that has no chat_context key.
NoChatContext ==
  [present |-> FALSE, session_index |-> 0, passes_completed |-> 0,
   estimated_tokens_fixed |-> 0, estimated_tokens_in |-> 0,
   estimated_tokens_out |-> 0, estimated_tokens_total |-> 0,
   threshold_tokens |-> 0, last_pass_id |-> <<0, 0>>]

default_research_execution ==
  [status |-> "pending",
   planning |-> [target_effort_per_pass |-> 12, max_topics_per_pass |-> 4,
                 latest_round |-> 0],
   topic_status |-> [t \in {} |-> 0],
   pass_queue |-> <<>>,
   pass_history |-> <<>>,
   source_registry |-> <<>>,
   handoff_required |-> FALSE,
   handoff_reason |-> "",
   chat_context |-> NoChatContext]

_coerce_research_topic_status(value) ==
  IF value \notin RESEARCH_TOPIC_STATUSES THEN "pending" ELSE value

\* The planning block ideation_research.py writes back: three keys only.
NormalizePlanning(planning) ==
  [target_effort_per_pass |->
     (IF PlanningGet(planning, "target_effort_per_pass") < 1 THEN 1
      ELSE PlanningGet(planning, "target_effort_per_pass")),
   max_topics_per_pass |->
     (IF PlanningGet(planning, "max_topics_per_pass") < 1 THEN 1
      ELSE PlanningGet(planning, "max_topics_per_pass")),
   latest_round |->
     (IF PlanningGet(planning, "latest_round") < 0 THEN 0
      ELSE PlanningGet(planning, "latest_round"))]

NormalizeTopicStatus(raw_topic_status) ==
  [t \in Topics |->
     IF t \in DOMAIN raw_topic_status
     THEN [raw_topic_status[t] EXCEPT
             !.status = _coerce_research_topic_status(@),
             !.passes_attempted = IF @ < 0 THEN 0 ELSE @]
     ELSE [status |-> "pending", passes_attempted |-> 0, last_pass_id |-> <<0, 0>>,
           unresolved_questions |-> {}, source_ids |-> {}]]

RECURSIVE NormalizeQueue(_, _)
NormalizeQueue(raw_queue, i) ==
  IF i > Len(raw_queue) THEN <<>>
  ELSE LET entry == raw_queue[i]
           topic_ids == SelectSeqIdx(entry.topic_ids, 1, Topics)
       IN (IF topic_ids = <<>> THEN <<>>
           ELSE <<[pass_id |-> entry.pass_id,
                   round |-> IF entry.round < 0 THEN 0 ELSE entry.round,
                   status |-> IF entry.status \notin {"pending", "in_progress"}
                              THEN "pending" ELSE entry.status,
                   topic_ids |-> topic_ids,
                   planned_effort |-> IF entry.planned_effort < 0 THEN 0
                                      ELSE entry.planned_effort,
                   estimated_tokens_in |-> 0]>>)
          \o NormalizeQueue(raw_queue, i + 1)

\* summary.topic_complete as the normalizer counts it (line 308)
normalized_topic_complete(topic_status) ==
  Cardinality({t \in DOMAIN topic_status : topic_status[t].status = "complete"})

normalized_execution(raw_execution, topic_status, pass_queue) ==
  LET total_topics == Cardinality(DOMAIN topic_status)
      topic_complete == normalized_topic_complete(topic_status)
      execution_status ==
        IF total_topics = 0 THEN "pending"
        ELSE IF topic_complete = total_topics THEN "complete"
        ELSE IF pass_queue # <<>> THEN "in_progress"
        ELSE "pending"
  IN [status |-> execution_status,
      planning |-> NormalizePlanning(raw_execution.planning),
      topic_status |-> topic_status,
      pass_queue |-> pass_queue,
      pass_history |-> raw_execution.pass_history,
      source_registry |-> raw_execution.source_registry,
      handoff_required |-> IF execution_status = "complete" THEN FALSE
                           ELSE raw_execution.handoff_required,
      handoff_reason |-> "",
      chat_context |-> NoChatContext]

_normalize_research_execution(raw_execution) ==
  Bind(NormalizeTopicStatus(raw_execution.topic_status), LAMBDA topic_status :
    Bind(NormalizeQueue(raw_execution.pass_queue, 1), LAMBDA pass_queue :
      normalized_execution(raw_execution, topic_status, pass_queue)))

\* reset_research_execution: every agenda topic pending, nothing planned
reset_research_execution ==
  [default_research_execution EXCEPT
     !.topic_status = [t \in Topics |->
        [status |-> "pending", passes_attempted |-> 0, last_pass_id |-> <<0, 0>>,
         unresolved_questions |-> {}, source_ids |-> {}]]]

\* --------------------------------------------------------------- planner
\* status_rank with follow-ups ranked ahead of pending topics
status_rank_followup_first(status) ==
  CASE status = "needs_followup" -> 0
    [] status = "in_progress" -> 1
    [] status = "pending" -> 2
    [] OTHER -> 2

status_rank(status) ==
  CASE status = "pending" -> 0
    [] status = "in_progress" -> 1
    [] status = "needs_followup" -> 2
    [] OTHER -> 2

priority_rank(priority) ==
  CASE priority = "high" -> 0
    [] priority = "medium" -> 1
    [] priority = "low" -> 2
    [] OTHER -> 1

\* sort_key without the status rank and the attempt count
sort_key_by_priority(topic_id, topic_map, execution) ==
  <<priority_rank(topic_map[topic_id].priority),
    0 - topic_effort(topic_map[topic_id]),
    TopicRank(topic_id)>>

sort_key(topic_id, topic_map, execution) ==
  <<status_rank(execution.topic_status[topic_id].status),
    coerce_positive_int(execution.topic_status[topic_id].passes_attempted, 0),
    priority_rank(topic_map[topic_id].priority),
    0 - topic_effort(topic_map[topic_id]),
    TopicRank(topic_id)>>

\* Python tuple comparison
TupleLess(a, b) ==
  \E i \in 1..Len(a) : a[i] < b[i] /\ \A j \in 1..(i - 1) : a[j] = b[j]

RECURSIVE sort_topics_for_planning(_, _, _)
sort_topics_for_planning(topic_ids, topic_map, execution) ==
  IF topic_ids = {} THEN <<>>
  ELSE Bind(CHOOSE t \in topic_ids :
              \A u \in topic_ids \ {t} :
                TupleLess(sort_key(t, topic_map, execution),
                          sort_key(u, topic_map, execution)),
            LAMBDA first :
              <<first>> \o sort_topics_for_planning(topic_ids \ {first}, topic_map,
                                                    execution))

latest_round(execution) ==
  SetMax({planning_config(execution.planning).latest_round}
         \cup {coerce_positive_int(execution.pass_queue[i].round, 0) :
                 i \in 1..Len(execution.pass_queue)}
         \cup {coerce_positive_int(execution.pass_history[i].round, 0) :
                 i \in 1..Len(execution.pass_history)})

\* pass id "pass-r{round}-{index:02d}"
PassId(round_number, pass_index) == <<round_number, pass_index>>

NewPass(round_number, pass_index, current_topics, current_effort) ==
  [pass_id |-> PassId(round_number, pass_index),
   round |-> round_number,
   status |-> "pending",
   topic_ids |-> current_topics,
   planned_effort |-> current_effort,
   estimated_tokens_in |-> 0]

\* should_close without the topic-count test
should_close_on_effort(current_topics, current_effort, effort, max_topics, target_effort) ==
  /\ current_topics # <<>>
  /\ current_effort + effort > target_effort

should_close(current_topics, current_effort, effort, max_topics, target_effort) ==
  /\ current_topics # <<>>
  /\ \/ Len(current_topics) >= max_topics
     \/ current_effort + effort > target_effort

RECURSIVE PackTopics(_, _, _, _, _, _, _, _, _)
\* the loop of rebuild_pass_queue over ordered_topics[i..]
PackTopics(ordered_topics, i, topic_map, config, round_number,
           queue, current_topics, current_effort, pass_index) ==
  IF i > Len(ordered_topics)
  THEN IF current_topics # <<>>
       THEN Append(queue, NewPass(round_number, pass_index, current_topics, current_effort))
       ELSE queue
  ELSE LET effort == topic_effort(topic_map[ordered_topics[i]])
           close == should_close(current_topics, current_effort, effort,
                                 config.max_topics_per_pass,
                                 config.target_effort_per_pass)
       IN IF close
          THEN PackTopics(ordered_topics, i + 1, topic_map, config, round_number,
                          Append(queue, NewPass(round_number, pass_index,
                                                current_topics, current_effort)),
                          <<ordered_topics[i]>>, effort, pass_index + 1)
          ELSE PackTopics(ordered_topics, i + 1, topic_map, config, round_number,
                          queue, Append(current_topics, ordered_topics[i]),
                          current_effort + effort, pass_index)

\* the round number without the increment
next_round_number_repeated(execution) == latest_round(execution)

next_round_number(execution) == latest_round(execution) + 1

\* a round planned over every topic, resolved or not
rebuild_pass_queue_every_topic(execution, topic_map) ==
  LET config == planning_config(execution.planning)
      round_number == next_round_number(execution)
      planned == [execution EXCEPT
                    !.planning = [config EXCEPT !.latest_round = round_number]]
      ordered_topics ==
        sort_topics_for_planning(DOMAIN execution.topic_status, topic_map, planned)
  IN [planned EXCEPT
        !.pass_queue = PackTopics(ordered_topics, 1, topic_map, config,
                                  round_number, <<>>, <<>>, 0, 1)]

rebuild_pass_queue(execution, topic_map) ==
  LET topic_ids == unresolved_topics(execution)
      config == planning_config(execution.planning)
      round_number == next_round_number(execution)
      planned == [execution EXCEPT
                    !.planning = [config EXCEPT !.latest_round = round_number]]
  IN IF topic_ids = {} THEN [execution EXCEPT !.pass_queue = <<>>]
     ELSE Bind(sort_topics_for_planning(topic_ids, topic_map, planned),
               LAMBDA ordered_topics :
                 [planned EXCEPT
                    !.pass_queue = PackTopics(ordered_topics, 1, topic_map, config,
                                              round_number, <<>>, <<>>, 0, 1)])

\* ------------------------------------------------------------------ caps
\* f"Pass cap reached ({max_passes_per_topic}); ..." / f"Total pass cap reached (...)"
CapNote(kind, limit) == [kind |-> kind, n |-> limit]

QuestionNote == [kind |-> "question", n |-> 0]

mark_topic_complete_with_caveats(entry, note) ==
  [entry EXCEPT !.status = "complete_with_caveats",
                !.unresolved_questions = @ \cup {note}]

topic_cap_reached(entry, max_passes_per_topic) ==
  /\ entry.status \in TOPIC_ACTIVE_STATUSES
  /\ coerce_positive_int(entry.passes_attempted, 0) >= max_passes_per_topic

\* the planning block filled in, and no topic capped
enforce_topic_retry_limits_never(execution) ==
  [execution EXCEPT !.planning = planning_config(@)]

enforce_topic_retry_limits(execution) ==
  LET config == planning_config(execution.planning)
      note == CapNote("topic_cap", config.max_passes_per_topic)
  IN [execution EXCEPT
        !.planning = config,
        !.topic_status = [t \in DOMAIN @ |->
           IF topic_cap_reached(@[t], config.max_passes_per_topic)
           THEN mark_topic_complete_with_caveats(@[t], note)
           ELSE @[t]]]

total_cap_reached(history_length, max_total_passes) ==
  history_length >= max_total_passes

\* a total cap that is never applied
enforce_total_pass_limit_never(execution) == [execution EXCEPT !.planning = planning_config(@)]

enforce_total_pass_limit(execution) ==
  LET config == planning_config(execution.planning)
      note == CapNote("total_cap", config.max_total_passes)
      configured == [execution EXCEPT !.planning = config]
      capped_topic_ids == unresolved_topics(execution)
  IN IF ~total_cap_reached(Len(execution.pass_history), config.max_total_passes)
     THEN configured
     ELSE IF capped_topic_ids = {} THEN configured
     ELSE [configured EXCEPT
             !.pass_queue = <<>>,
             !.topic_status = [t \in DOMAIN @ |->
                IF t \in capped_topic_ids
                THEN mark_topic_complete_with_caveats(@[t], note)
                ELSE @[t]]]

RECURSIVE PruneQueue(_, _, _)
PruneQueue(queue, i, active_topic_ids) ==
  IF i > Len(queue) THEN <<>>
  ELSE LET entry == queue[i]
           topic_ids == SelectSeqIdx(entry.topic_ids, 1, active_topic_ids)
       IN (IF topic_ids = <<>> THEN <<>>
           ELSE <<[entry EXCEPT
                     !.round = coerce_positive_int(@, 0),
                     !.status = IF @ \notin {"pending", "in_progress"}
                                THEN "pending" ELSE @,
                     !.topic_ids = topic_ids,
                     !.planned_effort = coerce_positive_int(@, 0),
                     !.estimated_tokens_in = coerce_positive_int(@, 0)]>>)
          \o PruneQueue(queue, i + 1, active_topic_ids)

prune_pass_queue(execution) ==
  [execution EXCEPT
     !.pass_queue = PruneQueue(@, 1, unresolved_topics(execution))]

\* ---------------------------------------------------------- chat context
ensure_chat_context(execution, reset) ==
  LET config == planning_config(execution.planning)
      raw == execution.chat_context
      prior_session_index ==
        IF raw.present THEN coerce_positive_int(raw.session_index, 0) ELSE 0
      fixed_tokens ==
        IF reset \/ ~raw.present THEN config.estimated_fixed_tokens_per_chat
        ELSE coerce_positive_int(raw.estimated_tokens_fixed, 0)
      passes_completed ==
        IF reset \/ ~raw.present THEN 0 ELSE coerce_positive_int(raw.passes_completed, 0)
      tokens_in ==
        IF reset \/ ~raw.present THEN 0 ELSE coerce_positive_int(raw.estimated_tokens_in, 0)
      tokens_out ==
        IF reset \/ ~raw.present THEN 0 ELSE coerce_positive_int(raw.estimated_tokens_out, 0)
  IN [execution EXCEPT
        !.planning = config,
        !.chat_context =
          [present |-> TRUE,
           session_index |-> IF reset THEN prior_session_index + 1
                             ELSE prior_session_index,
           passes_completed |-> passes_completed,
           estimated_tokens_fixed |-> fixed_tokens,
           estimated_tokens_in |-> tokens_in,
           estimated_tokens_out |-> tokens_out,
           estimated_tokens_total |-> fixed_tokens + tokens_in + tokens_out,
           threshold_tokens |-> context_threshold_tokens(config),
           last_pass_id |-> IF reset \/ ~raw.present THEN <<0, 0>>
                            ELSE raw.last_pass_id]]

\* lines 623-642, on the context ensure_chat_context returned
add_pass_tokens(ensured, pass_id, estimated_tokens_in, estimated_tokens_out) ==
  [ensured EXCEPT
     !.chat_context =
       [@ EXCEPT
          !.passes_completed = @ + 1,
          !.estimated_tokens_in = @ + Max2(0, estimated_tokens_in),
          !.estimated_tokens_out = @ + Max2(0, estimated_tokens_out),
          !.estimated_tokens_total =
             ensured.chat_context.estimated_tokens_fixed
               + ensured.chat_context.estimated_tokens_in + Max2(0, estimated_tokens_in)
               + ensured.chat_context.estimated_tokens_out + Max2(0, estimated_tokens_out),
          !.last_pass_id = pass_id]]

apply_pass_token_estimate(execution, pass_id, estimated_tokens_in, estimated_tokens_out) ==
  Bind(ensure_chat_context(execution, FALSE), LAMBDA ensured :
    add_pass_tokens(ensured, pass_id, estimated_tokens_in, estimated_tokens_out))

\* lines 649-662, on the context ensure_chat_context returned
decide_handoff(chat_context, max_passes_per_chat) ==
  IF coerce_positive_int(chat_context.estimated_tokens_total, 0)
       >= coerce_positive_int(chat_context.threshold_tokens, 1)
  THEN <<TRUE, "context_budget">>
  ELSE IF coerce_positive_int(chat_context.passes_completed, 0) >= max_passes_per_chat
  THEN <<TRUE, "pass_cap">>
  ELSE <<FALSE, "">>

\* <<handoff_required, handoff_reason>>
handoff_decision(execution) ==
  decide_handoff(ensure_chat_context(execution, FALSE).chat_context,
                 planning_config(execution.planning).max_passes_per_chat)

\* -------------------------------------------------------------- summary
FirstWithStatus(queue, status) ==
  IF \E i \in 1..Len(queue) : queue[i].status = status
  THEN LET i == CHOOSE i \in 1..Len(queue) :
                  /\ queue[i].status = status
                  /\ \A j \in 1..(i - 1) : queue[j].status # status
       IN <<queue[i]>>
  ELSE <<>>

topic_total(execution) == Cardinality(DOMAIN execution.topic_status)

topic_complete(execution) ==
  Cardinality({t \in DOMAIN execution.topic_status :
                 execution.topic_status[t].status \in TOPIC_COMPLETE_STATUSES})

recompute_execution_summary(execution) ==
  LET status ==
        IF topic_total(execution) = 0 THEN "pending"
        ELSE IF topic_complete(execution) = topic_total(execution) THEN "complete"
        ELSE IF execution.pass_queue # <<>> THEN "in_progress"
        ELSE "pending"
      summarized == [execution EXCEPT
                       !.status = status,
                       !.handoff_required = IF status = "complete" THEN FALSE ELSE @]
  IN Bind(summarized, LAMBDA summary_written : ensure_chat_context(summary_written, FALSE))

\* ---------------------------------------------------------- token sizes
\* characters of the serialized pass payload, per topic of the pass
CharsPerTopic == 400

\* lengths of the raw pass-result payload text the caller may send
PayloadChars == {200, 400000}

\* ~1 token per 4 characters
estimate_tokens(chars) == IF chars = 0 THEN 0 ELSE Max2(1, CeilDiv(chars, 4))

\* ---------------------------------------------------------------- sources
next_source_id(source_registry) ==
  LET used_ids == {source_registry[i].source_id : i \in 1..Len(source_registry)}
  IN CHOOSE index \in 1..(Len(source_registry) + 1) :
       index \notin used_ids /\ \A j \in 1..(index - 1) : j \in used_ids

\* register one source entry; <<registry, source_id>>
register_source(source_registry, pass_id, topic_id, url) ==
  LET matches == {i \in 1..Len(source_registry) :
                    /\ source_registry[i].url = url
                    /\ topic_id \in source_registry[i].topic_ids}
  IN IF matches # {}
     THEN <<source_registry,
            source_registry[CHOOSE i \in matches : \A j \in matches : i <= j].source_id>>
     ELSE <<Append(source_registry,
                   [source_id |-> next_source_id(source_registry), url |-> url,
                    topic_ids |-> {topic_id}, pass_id |-> pass_id]),
            next_source_id(source_registry)>>

\* ---------------------------------------------------------- command output
Output(execution, save, exit, error) ==
  [execution |-> execution, save |-> save, exit |-> exit, error |-> error,
   pass |-> <<>>, research_complete |-> FALSE]

\* build_pass_payload: what start prints about the pass
build_pass_payload(pass_entry) ==
  [pass_id |-> pass_entry.pass_id, round |-> pass_entry.round,
   planned_effort |-> pass_entry.planned_effort, topic_ids |-> pass_entry.topic_ids]

\* ------------------------------------------------------------------ start
\* lines 1084-1092: topics of the started pass
start_topic_status(entry, pass_id) ==
  IF entry.status \notin TOPIC_COMPLETE_STATUSES
  THEN [entry EXCEPT
          !.status = IF @ # "needs_followup" THEN "in_progress" ELSE @,
          !.last_pass_id = pass_id]
  ELSE entry

\* lines 1113-1154: save and print the started pass
start_output(final, started_pass) ==
  [execution |-> final, save |-> TRUE, exit |-> 0, error |-> "",
   pass |-> <<build_pass_payload(started_pass)>>,
   research_complete |-> final.status = "complete"]

\* lines 1101-1106
pass_tokens_in(pass_entry, config) ==
  IF coerce_positive_int(pass_entry.estimated_tokens_in, 0) < 1
  THEN estimate_tokens(CharsPerTopic * Len(pass_entry.topic_ids))
         + config.estimated_tokens_in_overhead_per_pass
  ELSE pass_entry.estimated_tokens_in

\* lines 1078-1109: mark the pass at queue index k started
StartPass(execution, k) ==
  Bind([execution EXCEPT
          !.pass_queue[k] =
             [@ EXCEPT !.status = "in_progress",
                       !.estimated_tokens_in =
                          pass_tokens_in(execution.pass_queue[k],
                                         planning_config(execution.planning))],
          !.topic_status = [t \in DOMAIN @ |->
             IF t \in Range(execution.pass_queue[k].topic_ids)
             THEN start_topic_status(@[t], execution.pass_queue[k].pass_id)
             ELSE @[t]],
          !.handoff_required = FALSE,
          !.handoff_reason = ""],
       LAMBDA started :
         Bind(recompute_execution_summary(started), LAMBDA final :
           start_output(final, started.pass_queue[k])))

QueueIndex(queue, status) ==
  CHOOSE i \in 1..Len(queue) :
    queue[i].status = status /\ \A j \in 1..(i - 1) : queue[j].status # status

HasStatus(queue, status) == \E i \in 1..Len(queue) : queue[i].status = status

\* a gate that lets every start through
handoff_never_blocks(pending_handoff, ack_handoff) == FALSE

\* a gate that an acknowledgement does not open
handoff_blocks_acknowledged(pending_handoff, ack_handoff) == pending_handoff

handoff_blocks_start(pending_handoff, ack_handoff) == pending_handoff /\ ~ack_handoff

\* lines 1058-1076: no pass is left to start
start_finished(raw_execution, finished) ==
  IF finished.status = "complete"
  THEN [Output(finished, TRUE, 0, "") EXCEPT !.research_complete = TRUE]
  ELSE Output(raw_execution, FALSE, 2, "NO_RESEARCH_PASS_AVAILABLE")

\* lines 1050-1078: take the first pending pass
start_planned(raw_execution, planned) ==
  IF HasStatus(planned.pass_queue, "pending")
  THEN StartPass(planned, QueueIndex(planned.pass_queue, "pending"))
  ELSE Bind(recompute_execution_summary(planned), LAMBDA finished :
         start_finished(raw_execution, finished))

\* replan whenever a topic is unresolved, drained queue or not
replan_always(capped, topic_map) ==
  IF unresolved_topics(capped) # {} THEN rebuild_pass_queue(capped, topic_map)
  ELSE capped

\* lines 1046-1049
replan_if_drained(capped, topic_map) ==
  IF capped.pass_queue = <<>> /\ unresolved_topics(capped) # {}
  THEN rebuild_pass_queue(capped, topic_map)
  ELSE capped

\* start that never resumes the pass in progress
start_capped_without_resume(raw_execution, capped, topic_map) ==
  start_planned(raw_execution,
                IF capped.pass_queue = <<>> /\ unresolved_topics(capped) # {}
                THEN prune_pass_queue(rebuild_pass_queue(capped, topic_map))
                ELSE capped)

\* lines 1034-1049: a pass already in progress is returned as it is
start_capped(raw_execution, capped, topic_map) ==
  IF HasStatus(capped.pass_queue, "in_progress")
  THEN StartPass(capped, QueueIndex(capped.pass_queue, "in_progress"))
  ELSE Bind(IF capped.pass_queue = <<>> /\ unresolved_topics(capped) # {}
            THEN prune_pass_queue(rebuild_pass_queue(capped, topic_map))
            ELSE capped,
            LAMBDA planned : start_planned(raw_execution, planned))

\* lines 1025-1028
acknowledge_handoff(contexted, ack_handoff) ==
  IF contexted.handoff_required /\ ack_handoff
  THEN [ensure_chat_context(contexted, TRUE) EXCEPT
          !.handoff_required = FALSE, !.handoff_reason = ""]
  ELSE contexted

\* lines 999-1032
start_loaded(raw_execution, contexted, topic_map, ack_handoff) ==
  IF handoff_blocks_start(contexted.handoff_required, ack_handoff)
  THEN Output(raw_execution, FALSE, 2, "RESEARCH_HANDOFF_REQUIRED")
  ELSE Bind(acknowledge_handoff(contexted, ack_handoff), LAMBDA acknowledged :
         Bind(enforce_topic_retry_limits(acknowledged), LAMBDA retried :
           Bind(enforce_total_pass_limit(retried), LAMBDA limited :
             Bind(prune_pass_queue(limited), LAMBDA capped :
               start_capped(raw_execution, capped, topic_map)))))

\* load_state: every command reads the document through the normalizer
load_state(raw_execution) == _normalize_research_execution(raw_execution)

\* planning.update(config) at the end of planning_config
apply_planning_config(execution) ==
  [execution EXCEPT !.planning = planning_config(@)]

handle_start(raw_execution, topic_map, ack_handoff) ==
  Bind(load_state(raw_execution), LAMBDA loaded :
    Bind(ensure_chat_context(apply_planning_config(loaded), FALSE), LAMBDA contexted :
      start_loaded(raw_execution, contexted, topic_map, ack_handoff)))

\* --------------------------------------------------------------- complete
RECURSIVE index_topic_results(_, _, _, _)
\* lines 1200-1213: the first defect met while indexing payload.topics, or ""
index_topic_results(payload_ids, i, pass_topic_ids, seen) ==
  IF i > Len(payload_ids) THEN ""
  ELSE IF payload_ids[i] \notin Range(pass_topic_ids)
  THEN "PASS_RESULT_TOPIC_NOT_IN_PASS"
  ELSE IF payload_ids[i] \in seen
  THEN "PASS_RESULT_TOPIC_DUPLICATE"
  ELSE index_topic_results(payload_ids, i + 1, pass_topic_ids, seen \cup {payload_ids[i]})

\* validation that only looks at the type of payload.topics
validate_pass_result_list_only(payload, pass_topic_ids) ==
  IF ~payload.topics_is_list THEN "PASS_RESULTS_TOPICS_REQUIRED" ELSE ""

\* lines 1194-1221
validate_pass_result(payload, pass_topic_ids) ==
  IF ~payload.topics_is_list THEN "PASS_RESULTS_TOPICS_REQUIRED"
  ELSE IF index_topic_results(payload.ids, 1, pass_topic_ids, {}) # ""
  THEN index_topic_results(payload.ids, 1, pass_topic_ids, {})
  ELSE IF \E t \in Range(pass_topic_ids) : t \notin Range(payload.ids)
  THEN "PASS_RESULT_MISSING_TOPICS"
  ELSE ""

\* result_status without the downgrade of complete
result_status_as_reported(raw_status, has_unresolved) ==
  IF raw_status \in PASS_RESULT_TOPIC_STATUSES THEN raw_status ELSE "needs_followup"

\* lines 1230-1235
result_status(raw_status, has_unresolved) ==
  LET status == IF raw_status \in PASS_RESULT_TOPIC_STATUSES THEN raw_status
                ELSE "needs_followup"
  IN IF status = "complete" /\ has_unresolved THEN "complete_with_caveats" ELSE status

RECURSIVE apply_topic_results(_, _, _, _, _, _)
\* lines 1228-1285: <<execution, pass_topic_results, pass_sources>>
apply_topic_results(execution, pass_id, pass_topic_ids, i, payload, acc) ==
  IF i > Len(pass_topic_ids) THEN <<execution, acc[1], acc[2]>>
  ELSE LET topic_id == pass_topic_ids[i]
           result == payload.results[topic_id]
           status == result_status(result.status, result.unresolved)
           unresolved == IF result.unresolved THEN {QuestionNote} ELSE {}
           registered == register_source(execution.source_registry, pass_id, topic_id,
                                         payload.source_url)
           source_ids == {registered[2]}
           entry == execution.topic_status[topic_id]
           updated ==
             [execution EXCEPT
                !.source_registry = registered[1],
                !.topic_status[topic_id] =
                   [entry EXCEPT
                      !.passes_attempted = coerce_positive_int(@, 0) + 1,
                      !.status = status,
                      !.last_pass_id = pass_id,
                      !.unresolved_questions = unresolved,
                      !.source_ids = @ \cup source_ids]]
       IN Bind(updated, LAMBDA updated_execution :
            Bind(<<Append(acc[1], [topic_id |-> topic_id, status |-> status,
                                   unresolved_question_count |-> Cardinality(unresolved),
                                   source_ids |-> source_ids]),
                   acc[2] \cup source_ids>>,
                 LAMBDA collected :
                   apply_topic_results(updated_execution, pass_id, pass_topic_ids, i + 1,
                                       payload, collected)))

\* lines 1287-1295
reset_stale_in_progress(topic_status, pass_topic_ids) ==
  [t \in DOMAIN topic_status |->
     IF t \notin Range(pass_topic_ids) /\ topic_status[t].status = "in_progress"
     THEN [topic_status[t] EXCEPT !.status = "pending"]
     ELSE topic_status[t]]

\* the completed pass left in the queue
remove_completed_pass_never(queue, pass_id) == queue

\* the queue cut at the completed pass
remove_completed_pass_and_later(queue, pass_id) ==
  SelectSeqIdx(queue, 1, {queue[i] : i \in {j \in 1..Len(queue) : \A k \in 1..j : queue[k].pass_id # pass_id}})

\* lines 1333-1338
remove_completed_pass(queue, pass_id) ==
  SelectSeq(queue, LAMBDA entry : entry.pass_id # pass_id)

\* lines 1339-1343
replan_after_complete(execution, topic_map) ==
  Bind(enforce_topic_retry_limits(execution), LAMBDA retried :
    Bind(enforce_total_pass_limit(retried), LAMBDA limited :
      Bind(prune_pass_queue(limited), LAMBDA capped :
        replan_if_drained(capped, topic_map))))

\* lines 1358-1376
complete_output(final, is_research_completed) ==
  [Output(final, TRUE, 0, "") EXCEPT !.research_complete = is_research_completed]

\* the handoff decision written whether or not research is complete
complete_decide_keeps_handoff(estimated, handoff) ==
  complete_output(
    [estimated EXCEPT
       !.status = IF topic_complete(estimated) = topic_total(estimated)
                  THEN "complete" ELSE "in_progress",
       !.handoff_required = handoff[1],
       !.handoff_reason = handoff[2]],
    topic_total(estimated) > 0 /\ topic_complete(estimated) = topic_total(estimated))

\* lines 1354-1374: research-completed, status and the handoff decision
complete_decide(estimated, handoff) ==
  IF topic_total(estimated) > 0 /\ topic_complete(estimated) = topic_total(estimated)
  THEN Bind([estimated EXCEPT !.status = "complete", !.handoff_required = FALSE,
                              !.handoff_reason = ""],
            LAMBDA decided :
              complete_output(recompute_execution_summary(decided), TRUE))
  ELSE Bind([estimated EXCEPT !.status = "in_progress",
                              !.handoff_required = handoff[1],
                              !.handoff_reason = handoff[2]],
            LAMBDA decided :
              complete_output(recompute_execution_summary(decided), FALSE))

\* lines 1345-1353
complete_estimate(estimated) ==
  Bind(handoff_decision(estimated), LAMBDA handoff : complete_decide(estimated, handoff))

\* lines 1287-1353, on the result <<execution, pass_topic_results, pass_sources>>
\* of the topic loop
complete_archive(applied, queue, pass_entry, topic_map, payload) ==
  Bind([applied[1] EXCEPT
          !.topic_status = reset_stale_in_progress(@, pass_entry.topic_ids),
          !.pass_history = Append(@, [pass_id |-> pass_entry.pass_id,
                                      round |-> pass_entry.round,
                                      topics |-> applied[2],
                                      source_ids |-> applied[3]]),
          !.pass_queue = remove_completed_pass(queue, pass_entry.pass_id)],
       LAMBDA archived :
         Bind(replan_after_complete(archived, topic_map), LAMBDA replanned :
           Bind(apply_pass_token_estimate(
                  replanned, pass_entry.pass_id,
                  pass_tokens_in(pass_entry, applied[1].planning),
                  estimate_tokens(payload.chars)
                    + applied[1].planning.estimated_tokens_out_overhead_per_pass),
                LAMBDA estimated :
                  Bind(recompute_execution_summary(estimated), LAMBDA summarized :
                    complete_estimate(summarized)))))

\* lines 1194-1285
complete_pass(raw_execution, configured, pass_entry, topic_map, payload) ==
  IF validate_pass_result(payload, pass_entry.topic_ids) # ""
  THEN Output(raw_execution, FALSE, 2, validate_pass_result(payload, pass_entry.topic_ids))
  ELSE Bind(apply_topic_results(configured, pass_entry.pass_id, pass_entry.topic_ids, 1,
                                payload, <<<<>>, {}>>),
            LAMBDA applied :
              complete_archive(applied, configured.pass_queue, pass_entry, topic_map,
                               payload))

\* lines 1177-1192: the queue entries complete accepts for a pass id
in_progress_matches(queue, pass_id) ==
  {i \in 1..Len(queue) : queue[i].pass_id = pass_id /\ queue[i].status = "in_progress"}

\* a lookup of the pass by its id alone, whatever its status
complete_loaded_any_status(raw_execution, configured, topic_map, pass_id, payload) ==
  IF \A i \in 1..Len(configured.pass_queue) : configured.pass_queue[i].pass_id # pass_id
  THEN Output(raw_execution, FALSE, 2, "IN_PROGRESS_PASS_NOT_FOUND")
  ELSE complete_pass(raw_execution, configured,
                     configured.pass_queue[
                       CHOOSE i \in 1..Len(configured.pass_queue) :
                         configured.pass_queue[i].pass_id = pass_id],
                     topic_map, payload)

complete_loaded(raw_execution, configured, topic_map, pass_id, payload) ==
  IF in_progress_matches(configured.pass_queue, pass_id) = {}
  THEN Output(raw_execution, FALSE, 2, "IN_PROGRESS_PASS_NOT_FOUND")
  ELSE Bind(configured.pass_queue[
              CHOOSE i \in in_progress_matches(configured.pass_queue, pass_id) :
                \A j \in in_progress_matches(configured.pass_queue, pass_id) :
                  i <= j],
            LAMBDA pass_entry :
              complete_pass(raw_execution, configured, pass_entry, topic_map, payload))

handle_complete(raw_execution, topic_map, pass_id, payload) ==
  Bind(apply_planning_config(load_state(raw_execution)), LAMBDA configured :
    complete_loaded(raw_execution, configured, topic_map, pass_id, payload))

\* ------------------------------------------- workflow (workflow_state.py)
\* The workflow part of the document: workflow.plan (a tree of items, each
\* with id, status and children), the legacy flags prerequisites-pass and
\* state.ideation-completed, and the derived next item and completion
\* percent.  Titles, kinds and routes are left out.
VALID_STATUSES == {"pending", "in_progress", "complete", "blocked", "skipped"}

COMPLETED_STATUSES == {"complete", "skipped"}

_coerce_status(value) == IF value \notin VALID_STATUSES THEN "pending" ELSE value

_is_complete_status(status) == status \in COMPLETED_STATUSES

Item(id, status, children) == [id |-> id, status |-> status, children |-> children]

\* milestone -> phase -> wave -> task, no status stored
default_workflow_plan ==
  <<Item("milestone-foundation", "", <<
      Item("phase-project-setup", "", <<
        Item("wave-initialize-cadence", "", <<
          Item("task-scaffold", "", <<>>),
          Item("task-prerequisite-gate", "", <<>>),
          Item("task-ideation", "", <<>>)>>)>>)>>)>>

RECURSIVE _normalize_item(_)
RECURSIVE _normalize_plan(_)
_normalize_item(raw_item) ==
  Item(raw_item.id, _coerce_status(raw_item.status), _normalize_plan(raw_item.children))

_normalize_plan(plan) ==
  IF plan = <<>> THEN <<>>
  ELSE <<_normalize_item(Head(plan))>> \o _normalize_plan(Tail(plan))

RECURSIVE _set_item_status(_, _, _)
\* the items after the in-place update
_set_item_status(items, item_id, status) ==
  IF items = <<>> THEN <<>>
  ELSE LET item == Head(items)
       IN <<Item(item.id,
                 IF item.id = item_id THEN status ELSE item.status,
                 _set_item_status(item.children, item_id, status))>>
          \o _set_item_status(Tail(items), item_id, status)

RECURSIVE item_found(_, _)
\* the value _set_item_status returns
item_found(items, item_id) ==
  /\ items # <<>>
  /\ \/ Head(items).id = item_id
     \/ item_found(Head(items).children, item_id)
     \/ item_found(Tail(items), item_id)

NoItem == Item("", "", <<>>)

RECURSIVE _find_item_by_id(_, _)
\* lines 203-205: the item found below the first item, else the search goes on
nested_or_next(nested, items, item_id) ==
  IF nested # NoItem THEN nested ELSE _find_item_by_id(Tail(items), item_id)

_find_item_by_id(items, item_id) ==
  IF items = <<>> THEN NoItem
  ELSE IF Head(items).id = item_id THEN Head(items)
  ELSE nested_or_next(_find_item_by_id(Head(items).children, item_id), items, item_id)

\* _roll_up_status with the blocked check ahead of the in_progress checks
rolled_status_blocked_first(child_statuses) ==
  IF \A i \in 1..Len(child_statuses) : _is_complete_status(child_statuses[i]) THEN "complete"
  ELSE IF \A i \in 1..Len(child_statuses) : child_statuses[i] = "pending" THEN "pending"
  ELSE IF \E i \in 1..Len(child_statuses) : child_statuses[i] = "blocked" THEN "blocked"
  ELSE "in_progress"

\* _roll_up_status with an item complete as soon as one child is
rolled_status_any_complete(child_statuses) ==
  IF \E i \in 1..Len(child_statuses) : _is_complete_status(child_statuses[i]) THEN "complete"
  ELSE IF \A i \in 1..Len(child_statuses) : child_statuses[i] = "pending" THEN "pending"
  ELSE IF \E i \in 1..Len(child_statuses) : child_statuses[i] = "in_progress" THEN "in_progress"
  ELSE IF \E i \in 1..Len(child_statuses) : child_statuses[i] = "blocked" THEN "blocked"
  ELSE "pending"

\* _roll_up_status, lines 217-229: the status of an item from its children's
rolled_status(child_statuses) ==
  IF \A i \in 1..Len(child_statuses) : _is_complete_status(child_statuses[i]) THEN "complete"
  ELSE IF \A i \in 1..Len(child_statuses) : child_statuses[i] = "pending" THEN "pending"
  ELSE IF \E i \in 1..Len(child_statuses) : child_statuses[i] = "in_progress" THEN "in_progress"
  ELSE IF \E i \in 1..Len(child_statuses) : _is_complete_status(child_statuses[i]) THEN "in_progress"
  ELSE IF \E i \in 1..Len(child_statuses) : child_statuses[i] = "blocked" THEN "blocked"
  ELSE "pending"

RECURSIVE ItemStatuses(_)
ItemStatuses(items) ==
  IF items = <<>> THEN <<>> ELSE <<Head(items).status>> \o ItemStatuses(Tail(items))

RECURSIVE _roll_up_status_stored_children(_)
RECURSIVE roll_up_plan_stored_children(_)
\* _roll_up_status reading the children's statuses before they are rolled up
_roll_up_status_stored_children(item) ==
  IF item.children = <<>> THEN Item(item.id, _coerce_status(item.status), <<>>)
  ELSE Item(item.id, rolled_status(ItemStatuses(item.children)),
            roll_up_plan_stored_children(item.children))

roll_up_plan_stored_children(plan) ==
  IF plan = <<>> THEN <<>>
  ELSE <<_roll_up_status_stored_children(Head(plan))>>
       \o roll_up_plan_stored_children(Tail(plan))

\* lines 216-231: the item once its children are rolled up
rolled_item(id, children) == Item(id, rolled_status(ItemStatuses(children)), children)

RECURSIVE _roll_up_status(_)
RECURSIVE _roll_up_plan(_)
\* the item after the in-place update; its status is the value returned
_roll_up_status(item) ==
  IF item.children = <<>> THEN Item(item.id, _coerce_status(item.status), <<>>)
  ELSE rolled_item(item.id, _roll_up_plan(item.children))

_roll_up_plan(plan) ==
  IF plan = <<>> THEN <<>>
  ELSE <<_roll_up_status(Head(plan))>> \o _roll_up_plan(Tail(plan))

RECURSIVE actionable_nodes(_)
\* _collect_nodes filtered on is_actionable: the leaves, in document order
actionable_nodes(items) ==
  IF items = <<>> THEN <<>>
  ELSE (IF Head(items).children = <<>> THEN <<Head(items)>>
        ELSE actionable_nodes(Head(items).children))
       \o actionable_nodes(Tail(items))

_legacy_completion_map(data, cadence_dir_exists) ==
  [id \in {"task-scaffold", "task-prerequisite-gate", "task-ideation"} |->
     CASE id = "task-scaffold" -> cadence_dir_exists
       [] id = "task-prerequisite-gate" -> data.prerequisites_pass
       [] OTHER -> data.ideation_completed]

LegacyStatus(is_complete) == IF is_complete THEN "complete" ELSE "pending"

RECURSIVE set_legacy_statuses(_, _)
\* the _set_item_status calls of the loop, which name different ids, made in
\* one walk of the plan
set_legacy_statuses(items, legacy) ==
  IF items = <<>> THEN <<>>
  ELSE <<Item(Head(items).id,
              IF Head(items).id \in DOMAIN legacy THEN LegacyStatus(legacy[Head(items).id])
              ELSE Head(items).status,
              set_legacy_statuses(Head(items).children, legacy))>>
       \o set_legacy_statuses(Tail(items), legacy)

RECURSIVE promote_legacy_statuses(_, _)
promote_legacy_statuses(items, legacy) ==
  IF items = <<>> THEN <<>>
  ELSE <<Item(Head(items).id,
              IF Head(items).id \in DOMAIN legacy /\ legacy[Head(items).id] THEN "complete"
              ELSE Head(items).status,
              promote_legacy_statuses(Head(items).children, legacy))>>
       \o promote_legacy_statuses(Tail(items), legacy)

\* _apply_legacy_task_states that only promotes: a flag that is not set leaves
\* the status of its item alone
apply_legacy_promote_only(plan, data, cadence_dir_exists) ==
  promote_legacy_statuses(plan, _legacy_completion_map(data, cadence_dir_exists))

_apply_legacy_task_states(plan, data, cadence_dir_exists) ==
  set_legacy_statuses(plan, _legacy_completion_map(data, cadence_dir_exists))

\* lines 308-311: the flag mirrors the item when the plan has it
synced_flag(item, flag) ==
  IF item # NoItem THEN _is_complete_status(_coerce_status(item.status)) ELSE flag

_sync_legacy_flags_from_plan(data, plan) ==
  [data EXCEPT
     !.prerequisites_pass = synced_flag(_find_item_by_id(plan, "task-prerequisite-gate"), @),
     !.ideation_completed = synced_flag(_find_item_by_id(plan, "task-ideation"), @)]

\* int(round(x)): Python rounds a half to the even neighbour
RoundHalfEven(n, d) ==
  LET q == n \div d
      twice == 2 * (n % d)
  IN IF twice < d THEN q
     ELSE IF twice > d THEN q + 1
     ELSE IF q % 2 = 0 THEN q ELSE q + 1

\* A route is kept as its skill_name.  No operation writes the route key of
\* an item, so the routes of the document are a table by item id.
DEFAULT_ROUTE_BY_ITEM_ID(item_id) ==
  CASE item_id = "task-scaffold" -> "scaffold"
    [] item_id = "task-prerequisite-gate" -> "prerequisite-gate"
    [] item_id = "task-ideation" -> "ideator"
    [] OTHER -> ""

\* The route key of the items the document adds to the default plan:
\* task-review-a has none.
ItemRoute(item_id) ==
  CASE item_id = "task-research" -> "researcher"
    [] item_id = "task-review-b" -> "planner"
    [] OTHER -> ""

_normalize_route(item_id, route_value) ==
  IF route_value # "" THEN route_value ELSE DEFAULT_ROUTE_BY_ITEM_ID(item_id)

_default_route == ""

_build_route_for_node(item_id) ==
  IF _normalize_route(item_id, ItemRoute(item_id)) = "" THEN _default_route
  ELSE _normalize_route(item_id, ItemRoute(item_id))

\* _derive_workflow preferring a leaf in progress to the first open leaf
derived_workflow_in_progress_first(plan, nodes) ==
  LET open == SelectSeq(nodes, LAMBDA node : ~_is_complete_status(node.status))
      started == SelectSeq(nodes, LAMBDA node : node.status = "in_progress")
      completed == SelectSeq(nodes, LAMBDA node : _is_complete_status(node.status))
  IN [plan |-> plan,
      next_item |-> IF started # <<>> THEN Head(started).id
                    ELSE IF open = <<>> THEN "complete" ELSE Head(open).id,
      next_route |-> IF started # <<>> THEN _build_route_for_node(Head(started).id)
                     ELSE IF open = <<>> THEN _default_route
                     ELSE _build_route_for_node(Head(open).id),
      completion_percent |->
        IF nodes = <<>> THEN 100 ELSE RoundHalfEven(100 * Len(completed), Len(nodes))]

derived_workflow(plan, nodes) ==
  LET completed == SelectSeq(nodes, LAMBDA node : _is_complete_status(node.status))
      open == SelectSeq(nodes, LAMBDA node : ~_is_complete_status(node.status))
  IN [plan |-> plan,
      next_item |-> IF open = <<>> THEN "complete" ELSE Head(open).id,
      next_route |-> IF open = <<>> THEN _default_route
                     ELSE _build_route_for_node(Head(open).id),
      completion_percent |->
        IF nodes = <<>> THEN 100 ELSE RoundHalfEven(100 * Len(completed), Len(nodes))]

_derive_workflow(plan) == derived_workflow(plan, actionable_nodes(plan))

reconcile_workflow_state(data, cadence_dir_exists) ==
  [data EXCEPT
     !.workflow =
        _derive_workflow(
          _roll_up_plan(
            _apply_legacy_task_states(_normalize_plan(data.workflow.plan), data,
                                      cadence_dir_exists)))]

\* lines 467-472: the rolled-up plan with the status set is written back
set_status_found(reconciled, updated, cadence_dir_exists) ==
  reconcile_workflow_state(
    [_sync_legacy_flags_from_plan(reconciled, updated) EXCEPT !.workflow.plan = updated],
    cadence_dir_exists)

\* lines 458-465
set_status_in_plan(reconciled, plan, item_id, status, cadence_dir_exists) ==
  IF ~item_found(plan, item_id) THEN [data |-> reconciled, found |-> FALSE]
  ELSE [data |-> set_status_found(reconciled,
                                  _roll_up_plan(_set_item_status(plan, item_id, status)),
                                  cadence_dir_exists),
        found |-> TRUE]

set_status_reconciled(reconciled, item_id, status, cadence_dir_exists) ==
  set_status_in_plan(reconciled, _normalize_plan(reconciled.workflow.plan), item_id,
                     status, cadence_dir_exists)

\* set_workflow_item_status with the empty id handled like an absent one
set_status_always_reconciled(data, item_id, status, cadence_dir_exists) ==
  set_status_reconciled(reconcile_workflow_state(data, cadence_dir_exists),
                        IF item_id = "" THEN "task-missing" ELSE item_id,
                        status, cadence_dir_exists)

\* (updated_data, found); item ids are kept stripped, status is a valid one
set_workflow_item_status(data, item_id, status, cadence_dir_exists) ==
  IF item_id = "" THEN [data |-> data, found |-> FALSE]
  ELSE set_status_reconciled(reconcile_workflow_state(data, cadence_dir_exists), item_id,
                             status, cadence_dir_exists)

\* default_data(): the default plan reconciled without a .cadence directory
default_data ==
  reconcile_workflow_state(
    [prerequisites_pass |-> FALSE, ideation_completed |-> FALSE,
     workflow |-> [plan |-> default_workflow_plan, next_item |-> "",
                   next_route |-> "", completion_percent |-> 0]],
    FALSE)

\* ------------------------------------ route guard (assert-workflow-route.py)
\* load_state: the document reconciled; without the file the default data,
\* and that for the scaffold skill only.  A file that is there has its
\* directory.
assert_route_load_state(cadence_json, data, requested_skill) ==
  IF cadence_json = "missing"
  THEN IF requested_skill # "scaffold"
       THEN [exit |-> 2, error |-> "MISSING_CADENCE_STATE", data |-> data]
       ELSE [exit |-> 0, error |-> "",
             data |-> reconcile_workflow_state(default_data, FALSE)]
  ELSE IF cadence_json = "invalid"
  THEN [exit |-> 1, error |-> "INVALID_CADENCE_JSON", data |-> data]
  ELSE [exit |-> 0, error |-> "", data |-> reconcile_workflow_state(data, TRUE)]

\* main, lines 83-124, on the workflow of the loaded state
route_decision(workflow, requested_skill, allow_complete) ==
  IF workflow.next_item = "complete" /\ ~allow_complete
  THEN [exit |-> 2, error |-> "WORKFLOW_ALREADY_COMPLETE"]
  ELSE IF workflow.next_item # "complete" /\ workflow.next_route # requested_skill
  THEN [exit |-> 2, error |-> "WORKFLOW_ROUTE_MISMATCH"]
  ELSE [exit |-> 0, error |-> ""]

route_loaded(loaded, requested_skill, allow_complete) ==
  IF loaded.exit # 0 THEN [exit |-> loaded.exit, error |-> loaded.error]
  ELSE route_decision(loaded.data.workflow, requested_skill, allow_complete)

\* exit code and message of the guard; the requested skill is kept stripped
assert_workflow_route(cadence_json, data, requested_skill, allow_complete) ==
  route_loaded(assert_route_load_state(cadence_json, data, requested_skill),
               requested_skill, allow_complete)

\* ------------------------------- research agenda (ideation_research.py)
\* A text is the sequence of its words, with "-" for each character that is
\* not a lower-case letter or a digit; "" is <<>>.  A topic keeps, of its
\* title, keywords and tags, the set of alias texts that occur in them.
\* Titles, kinds, priorities and questions are left out.
RECURSIVE collapse_separators(_)
\* re.sub(r"[^a-z0-9]+", "-", text)
collapse_separators(text) ==
  IF Len(text) < 2 THEN text
  ELSE IF text[1] = "-" /\ text[2] = "-" THEN collapse_separators(Tail(text))
  ELSE <<text[1]>> \o collapse_separators(Tail(text))

RECURSIVE strip_separators(_)
\* .strip("-")
strip_separators(text) ==
  IF text = <<>> THEN text
  ELSE IF text[1] = "-" THEN strip_separators(Tail(text))
  ELSE IF text[Len(text)] = "-" THEN strip_separators(SubSeq(text, 1, Len(text) - 1))
  ELSE text

slugify(value, fallback) ==
  IF strip_separators(collapse_separators(value)) # <<>>
  THEN strip_separators(collapse_separators(value))
  ELSE strip_separators(collapse_separators(fallback))

RECURSIVE unique_suffixed(_, _, _)
unique_suffixed(seed, used, suffix) ==
  IF (seed \o <<"-", ToString(suffix)>>) \notin used
  THEN seed \o <<"-", ToString(suffix)>>
  ELSE unique_suffixed(seed, used, suffix + 1)

_unique_id(seed, used) ==
  IF seed \notin used THEN seed ELSE unique_suffixed(seed, used, 2)

RECURSIVE unique_texts(_, _)
\* the texts of a list that are not empty, each once, in order
unique_texts(texts, seen) ==
  IF texts = <<>> THEN <<>>
  ELSE IF Head(texts) = <<>> \/ Head(texts) \in seen
  THEN unique_texts(Tail(texts), seen)
  ELSE <<Head(texts)>> \o unique_texts(Tail(texts), seen \cup {Head(texts)})

slug_each(texts) == [i \in 1..Len(texts) |-> slugify(texts[i], <<"entity">>)]

\* _coerce_entity_refs: the entity ids of a list of references
_coerce_entity_refs(raw) == unique_texts(slug_each(unique_texts(raw, {})), {})

RECURSIVE first_labels(_, _)
\* the labels of _coerce_entity_refs: entity id and the reference as first
\* written, in the order of first reference
first_labels(raw, seen) ==
  IF raw = <<>> THEN <<>>
  ELSE IF Head(raw) = <<>> \/ slugify(Head(raw), <<"entity">>) \in seen
  THEN first_labels(Tail(raw), seen)
  ELSE <<[entity_id |-> slugify(Head(raw), <<"entity">>), label |-> Head(raw)]>>
       \o first_labels(Tail(raw), seen \cup {slugify(Head(raw), <<"entity">>)})

\* related_entities or entity_ids: the first of the two keys that is not empty
topic_entity_refs(topic) ==
  IF topic.related_entities # <<>> THEN topic.related_entities ELSE topic.entity_ids

normalize_topic(topic) ==
  [topic_id |-> topic.topic_id, words |-> topic.words,
   related_entities |-> _coerce_entity_refs(topic_entity_refs(topic))]

RECURSIVE normalize_blocks(_, _, _)
\* lines 525-580: block ids slugified and made unique, references coerced
normalize_blocks(blocks_raw, block_index, used_block_ids) ==
  IF blocks_raw = <<>> THEN <<>>
  ELSE <<[block_id |->
            _unique_id(slugify(Head(blocks_raw).block_id,
                               <<"block", "-", ToString(block_index)>>),
                       used_block_ids),
          topics |-> [i \in 1..Len(Head(blocks_raw).topics) |->
                        normalize_topic(Head(blocks_raw).topics[i])]]>>
       \o normalize_blocks(
            Tail(blocks_raw), block_index + 1,
            used_block_ids \cup
              {_unique_id(slugify(Head(blocks_raw).block_id,
                                  <<"block", "-", ToString(block_index)>>),
                          used_block_ids)})

BlockIds(blocks) == {blocks[i].block_id : i \in 1..Len(blocks)}

EntityIds(entities) == {entities[i].entity_id : i \in 1..Len(entities)}

EntityAt(entities, entity_id) ==
  entities[CHOOSE i \in 1..Len(entities) : entities[i].entity_id = entity_id]

ReplaceEntity(entities, entity) ==
  [i \in 1..Len(entities) |->
     IF entities[i].entity_id = entity.entity_id THEN entity ELSE entities[i]]

RECURSIVE update_labels(_, _)
\* referenced_entity_labels.update(labels)
update_labels(known, labels) ==
  IF labels = <<>> THEN known
  ELSE update_labels(IF Head(labels).entity_id \in EntityIds(known)
                     THEN ReplaceEntity(known, Head(labels))
                     ELSE Append(known, Head(labels)),
                     Tail(labels))

RECURSIVE referenced_entity_labels(_, _, _, _)
\* the labels of every reference, from topic t of block b on
referenced_entity_labels(blocks_raw, b, t, known) ==
  IF b > Len(blocks_raw) THEN known
  ELSE IF t > Len(blocks_raw[b].topics)
  THEN referenced_entity_labels(blocks_raw, b + 1, 1, known)
  ELSE referenced_entity_labels(
         blocks_raw, b, t + 1,
         update_labels(known,
                       first_labels(topic_entity_refs(blocks_raw[b].topics[t]), {})))

\* a registry entry normalized: lines 586-616
normalize_entry(entry) ==
  [entity_id |-> slugify(entry.entity_id, <<"entity">>),
   label |-> IF entry.label # <<>> THEN entry.label ELSE entry.entity_id,
   aliases |-> entry.aliases
               \cup {IF entry.label # <<>> THEN entry.label ELSE entry.entity_id},
   owner_block_id |-> IF entry.owner_block_id = <<>> THEN <<>>
                      ELSE slugify(entry.owner_block_id, entry.owner_block_id)]

\* lines 618-627: a second entry of an entity merged into the first
merge_entry(current, entry) ==
  [current EXCEPT
     !.owner_block_id = IF @ = <<>> THEN entry.owner_block_id ELSE @,
     !.aliases = @ \cup entry.aliases]

RECURSIVE normalize_registry(_, _, _)
RECURSIVE normalize_registry_entry(_, _, _, _)
\* lines 582-628; the result carries the error that ended the loop, if any
normalize_registry(entries, block_ids, entities) ==
  IF entries = <<>> THEN [entities |-> entities, error |-> ""]
  ELSE IF Head(entries).entity_id = <<>>
  THEN normalize_registry(Tail(entries), block_ids, entities)
  ELSE normalize_registry_entry(normalize_entry(Head(entries)), Tail(entries),
                                block_ids, entities)

normalize_registry_entry(entry, rest, block_ids, entities) ==
  IF entry.owner_block_id # <<>> /\ entry.owner_block_id \notin block_ids
  THEN [entities |-> entities, error |-> "UNKNOWN_ENTITY_OWNER_BLOCK"]
  ELSE IF entry.entity_id \notin EntityIds(entities)
  THEN normalize_registry(rest, block_ids, Append(entities, entry))
  ELSE IF /\ EntityAt(entities, entry.entity_id).owner_block_id # <<>>
          /\ entry.owner_block_id # <<>>
          /\ EntityAt(entities, entry.entity_id).owner_block_id # entry.owner_block_id
  THEN [entities |-> entities, error |-> "ENTITY_OWNER_CONFLICT"]
  ELSE normalize_registry(
         rest, block_ids,
         ReplaceEntity(entities, merge_entry(EntityAt(entities, entry.entity_id), entry)))

RECURSIVE add_referenced_entities(_, _)
\* lines 629-640: an entity that is referenced but not registered
add_referenced_entities(labels, entities) ==
  IF labels = <<>> THEN entities
  ELSE IF Head(labels).entity_id \in EntityIds(entities)
  THEN add_referenced_entities(Tail(labels), entities)
  ELSE add_referenced_entities(
         Tail(labels),
         Append(entities, [entity_id |-> Head(labels).entity_id,
                           label |-> Head(labels).label,
                           aliases |-> {Head(labels).label},
                           owner_block_id |-> <<>>]))

\* alias_lookup[alias], lines 642-654; every alias text stands for three
\* characters or more
alias_lookup(entities, alias) ==
  {entities[i].entity_id :
     i \in {j \in 1..Len(entities) : alias \in entities[j].aliases \cup {entities[j].label}}}

\* detected_ids, lines 678-687, in the order of the registry
detected_ids(entities, words) ==
  SelectSeq([i \in 1..Len(entities) |-> entities[i].entity_id],
            LAMBDA entity_id :
              \E alias \in words : alias_lookup(entities, alias) = {entity_id})

\* entity_blocks[entity_id]: the blocks whose topics reference the entity
entity_blocks(blocks, entity_id) ==
  {blocks[b].block_id :
     b \in {c \in 1..Len(blocks) :
              \E t \in 1..Len(blocks[c].topics) :
                entity_id \in Range(blocks[c].topics[t].related_entities)}}

\* alias inference that looks at the owner of an entity only
inferred_entities_by_owner(blocks, entities, block_id, topic) ==
  SelectSeq(detected_ids(entities, topic.words),
            LAMBDA entity_id :
              /\ entity_id \notin Range(topic.related_entities)
              /\ EntityAt(entities, entity_id).owner_block_id \in {<<>>, block_id})

\* lines 689-707: what alias inference adds to one topic
inferred_entities(blocks, entities, block_id, topic) ==
  SelectSeq(detected_ids(entities, topic.words),
            LAMBDA entity_id :
              /\ entity_id \notin Range(topic.related_entities)
              /\ EntityAt(entities, entity_id).owner_block_id \in {<<>>, block_id}
              /\ (entity_blocks(blocks, entity_id) = {}
                  \/ block_id \in entity_blocks(blocks, entity_id)))

RECURSIVE infer_aliases(_, _, _, _)
\* lines 666-707: the topics in the order of the document, from topic t of
\* block b on
infer_aliases(blocks, entities, b, t) ==
  IF b > Len(blocks) THEN blocks
  ELSE IF t > Len(blocks[b].topics) THEN infer_aliases(blocks, entities, b + 1, 1)
  ELSE infer_aliases(
         [blocks EXCEPT ![b].topics[t].related_entities =
            @ \o inferred_entities(blocks, entities, blocks[b].block_id,
                                   blocks[b].topics[t])],
         entities, b, t + 1)

\* _ordered_block_choice: the first of the blocks in the order of the agenda
_ordered_block_choice(block_ids, blocks) ==
  IF block_ids = {} THEN <<>>
  ELSE blocks[CHOOSE b \in 1..Len(blocks) :
                /\ blocks[b].block_id \in block_ids
                /\ \A c \in 1..(b - 1) : blocks[c].block_id \notin block_ids].block_id

\* the checks of an entity without the one for several blocks
entity_link_error_owner_only(blocks, entity) ==
  IF entity.owner_block_id # <<>> /\ entity.owner_block_id \notin BlockIds(blocks)
  THEN "UNKNOWN_ENTITY_OWNER_BLOCK"
  ELSE IF /\ entity.owner_block_id # <<>>
          /\ entity_blocks(blocks, entity.entity_id) # {}
          /\ entity.owner_block_id \notin entity_blocks(blocks, entity.entity_id)
  THEN "ENTITY_OWNER_MISMATCH"
  ELSE ""

\* lines 709-744 for one entity: the error it raises, "" when none
entity_link_error(blocks, entity) ==
  IF Cardinality(entity_blocks(blocks, entity.entity_id)) > 1
  THEN "ENTITY_BLOCK_CONFLICT"
  ELSE IF entity.owner_block_id # <<>> /\ entity.owner_block_id \notin BlockIds(blocks)
  THEN "UNKNOWN_ENTITY_OWNER_BLOCK"
  ELSE IF /\ entity.owner_block_id # <<>>
          /\ entity_blocks(blocks, entity.entity_id) # {}
          /\ entity.owner_block_id \notin entity_blocks(blocks, entity.entity_id)
  THEN "ENTITY_OWNER_MISMATCH"
  ELSE ""

\* line 746: an entity without an owner gets the block that references it
owned_entity(blocks, entity) ==
  IF entity.owner_block_id = <<>>
  THEN [entity EXCEPT !.owner_block_id =
          _ordered_block_choice(entity_blocks(blocks, entity.entity_id), blocks)]
  ELSE entity

RECURSIVE validate_entity_links(_, _, _)
\* lines 709-746: the entities in their order, up to the first error
validate_entity_links(blocks, entities, i) ==
  IF i > Len(entities) THEN [entities |-> entities, error |-> ""]
  ELSE IF entity_link_error(blocks, entities[i]) # ""
  THEN [entities |-> entities, error |-> entity_link_error(blocks, entities[i])]
  ELSE validate_entity_links(
         blocks, [entities EXCEPT ![i] = owned_entity(blocks, entities[i])], i + 1)

\* lines 748-765: a reference to an unknown entity, or to one owned elsewhere
topic_index_error(blocks, entities) ==
  IF \E b \in 1..Len(blocks) : \E t \in 1..Len(blocks[b].topics) :
       \E entity_id \in Range(blocks[b].topics[t].related_entities) :
         entity_id \notin EntityIds(entities)
  THEN "UNKNOWN_ENTITY_REFERENCE"
  ELSE IF \E b \in 1..Len(blocks) : \E t \in 1..Len(blocks[b].topics) :
            \E entity_id \in Range(blocks[b].topics[t].related_entities) :
              EntityAt(entities, entity_id).owner_block_id
                \notin {<<>>, blocks[b].block_id}
  THEN "ENTITY_BLOCK_MISMATCH"
  ELSE IF \A b \in 1..Len(blocks) : blocks[b].topics = <<>>
  THEN "RESEARCH_TOPICS_REQUIRED"
  ELSE ""

\* the order of the characters a text is made of
TokenOrder == <<"-", "2", "3", "a", "b", "block", "c", "entity", "x", "y">>

TokenRank(token) == CHOOSE i \in 1..Len(TokenOrder) : TokenOrder[i] = token

RECURSIVE TextLess(_, _)
TextLess(a, b) ==
  IF b = <<>> THEN FALSE
  ELSE IF a = <<>> THEN TRUE
  ELSE IF Head(a) # Head(b) THEN TokenRank(Head(a)) < TokenRank(Head(b))
  ELSE TextLess(Tail(a), Tail(b))

RECURSIVE sorted_entities(_)
\* normalized_entities.sort(key=entity_id)
sorted_entities(entities) ==
  IF entities = <<>> THEN <<>>
  ELSE sorted_entities(SelectSeq(Tail(entities),
                                 LAMBDA e : TextLess(e.entity_id, Head(entities).entity_id)))
       \o <<Head(entities)>>
       \o sorted_entities(SelectSeq(Tail(entities),
                                    LAMBDA e : ~TextLess(e.entity_id,
                                                         Head(entities).entity_id)))

\* ResearchAgendaValidationError: nothing is returned
AgendaRejected(error) ==
  [stage |-> "rejected", error |-> error, blocks |-> <<>>, entity_registry |-> <<>>]

normalize_indexed(blocks, entities, error) ==
  IF error # "" THEN AgendaRejected(error)
  ELSE [stage |-> "normalized", error |-> "", blocks |-> blocks,
        entity_registry |-> sorted_entities(entities)]

normalize_validated(blocks, validated) ==
  IF validated.error # "" THEN AgendaRejected(validated.error)
  ELSE normalize_indexed(blocks, validated.entities,
                         topic_index_error(blocks, validated.entities))

normalize_inferred(blocks, entities) ==
  normalize_validated(infer_aliases(blocks, entities, 1, 1),
                      validate_entity_links(infer_aliases(blocks, entities, 1, 1),
                                            entities, 1))

normalize_registered(blocks, registry, labels) ==
  IF registry.error # "" THEN AgendaRejected(registry.error)
  ELSE normalize_inferred(blocks, add_referenced_entities(labels, registry.entities))

normalize_blocked(blocks, ideation) ==
  normalize_registered(blocks,
                       normalize_registry(ideation.entity_registry, BlockIds(blocks), <<>>),
                       referenced_entity_labels(ideation.blocks, 1, 1, <<>>))

\* normalize_ideation_research(ideation, require_topics=True) on a payload
\* whose research_agenda is an object with a list of blocks
normalize_ideation_research(ideation) ==
  normalize_blocked(normalize_blocks(ideation.blocks, 1, {}), ideation)

\* ------------------ auto-repair (run-brownfield-documentation.py 449-632)
_slug_token(value, fallback) == slugify(value, fallback)

\* _unique_token returns the token; the caller adds it to the used ones
_unique_token(seed, used) == _unique_id(seed, used)

RECURSIVE repair_block_ids(_, _)
\* lines 469-478: a block without an id is given "block-{index}"
repair_block_ids(blocks, index) ==
  IF blocks = <<>> THEN <<>>
  ELSE <<[Head(blocks) EXCEPT
            !.block_id = IF @ = <<>> THEN <<"block", "-", ToString(index)>> ELSE @]>>
       \o repair_block_ids(Tail(blocks), index + 1)

\* lines 499-525 for an entry whose token is new, or is taken by an entity
\* of another owner
registered_entity(entry, seed, used) ==
  [entity_id |-> _unique_token(seed, used),
   label |-> IF entry.label # <<>> THEN entry.label ELSE entry.entity_id,
   aliases |-> entry.aliases
               \cup {IF entry.label # <<>> THEN entry.label ELSE entry.entity_id},
   owner_block_id |-> entry.owner_block_id]

RepairWith(known, entity) ==
  [known EXCEPT !.entities = Append(@, entity), !.used = @ \cup {entity.entity_id}]

RECURSIVE repair_registry(_, _, _)
RECURSIVE repair_registry_entry(_, _, _, _, _)
\* lines 487-525: the registry read into entity_index and entity_order
repair_registry(entries, index, known) ==
  IF entries = <<>> THEN known
  ELSE repair_registry_entry(Head(entries),
                             _slug_token(Head(entries).entity_id,
                                         <<"entity", "-", ToString(index)>>),
                             Tail(entries), index, known)

repair_registry_entry(entry, seed, rest, index, known) ==
  IF seed \notin EntityIds(known.entities)
  THEN repair_registry(rest, index + 1,
                       RepairWith(known, registered_entity(entry, seed, known.used)))
  ELSE IF /\ entry.owner_block_id # <<>>
          /\ EntityAt(known.entities, seed).owner_block_id # <<>>
          /\ entry.owner_block_id # EntityAt(known.entities, seed).owner_block_id
  THEN repair_registry(
         rest, index + 1,
         RepairWith(known,
                    registered_entity(
                      entry,
                      seed \o <<"-", "-">> \o _slug_token(entry.owner_block_id, <<"block">>),
                      known.used)))
  ELSE repair_registry(
         rest, index + 1,
         [known EXCEPT !.entities =
            ReplaceEntity(@, [EntityAt(known.entities, seed) EXCEPT
                                !.owner_block_id =
                                   IF @ = <<>> THEN entry.owner_block_id ELSE @,
                                !.aliases =
                                   @ \cup entry.aliases
                                     \cup {IF entry.label # <<>> THEN entry.label
                                           ELSE entry.entity_id}])])

\* lines 549-568: the id under which a reference is known, the entity made
\* for it when the registry has none
synthetic_entity_id(known, entity_seed) ==
  IF entity_seed \in known.used
  THEN _unique_token(entity_seed \o <<"-", ToString(known.synthetic_index + 1)>>,
                     known.used)
  ELSE entity_seed

known_reference(known, block_id, raw_entity, entity_seed) ==
  IF entity_seed \in EntityIds(known.entities)
  THEN [known |-> known, entity_id |-> entity_seed]
  ELSE [known |->
          [RepairWith(known,
                      [entity_id |-> synthetic_entity_id(known, entity_seed),
                       label |-> raw_entity, aliases |-> {raw_entity},
                       owner_block_id |-> block_id])
             EXCEPT !.synthetic_index = @ + 1],
        entity_id |-> synthetic_entity_id(known, entity_seed)]

CloneKey(entity_id, block_id) == [entity_id |-> entity_id, block_id |-> block_id]

\* lines 573-594: the clone of an entity for a block, made once
cloned_reference(known, entity, block_id, clone_id) ==
  [known |->
     [RepairWith(known,
                 [entity EXCEPT !.entity_id = clone_id, !.owner_block_id = block_id,
                                !.aliases = @ \cup {entity.label}])
        EXCEPT !.clone_cache = @ \cup {[key |-> CloneKey(entity.entity_id, block_id),
                                        clone_id |-> clone_id]}],
   entity_id |-> clone_id]

\* lines 570-600: the id that repair writes for a reference of a block
relinked_reference(known, entity, block_id) ==
  IF entity.owner_block_id # <<>> /\ entity.owner_block_id # block_id
  THEN IF \E cached \in known.clone_cache :
            cached.key = CloneKey(entity.entity_id, block_id)
       THEN [known |-> known,
             entity_id |-> (CHOOSE cached \in known.clone_cache :
                              cached.key = CloneKey(entity.entity_id, block_id)).clone_id]
       ELSE cloned_reference(
              known, entity, block_id,
              _unique_token(entity.entity_id \o <<"-", "-">>
                              \o _slug_token(block_id, <<"block">>),
                            known.used))
  ELSE IF entity.owner_block_id = <<>>
  THEN [known |-> [known EXCEPT !.entities =
                     ReplaceEntity(@, [entity EXCEPT !.owner_block_id = block_id])],
        entity_id |-> entity.entity_id]
  ELSE [known |-> known, entity_id |-> entity.entity_id]

repair_reference(reference, block_id) ==
  relinked_reference(reference.known,
                     EntityAt(reference.known.entities, reference.entity_id), block_id)

RECURSIVE repair_references(_, _, _, _)
RECURSIVE repaired_reference(_, _, _, _)
\* lines 547-606: the references of one topic, in order
repair_references(known, block_id, related_entities, repaired_related) ==
  IF related_entities = <<>> THEN [known |-> known, related |-> repaired_related]
  ELSE repaired_reference(
         repair_reference(known_reference(known, block_id, Head(related_entities),
                                          _slug_token(Head(related_entities),
                                                      <<"entity">>)),
                          block_id),
         block_id, Tail(related_entities), repaired_related)

repaired_reference(reference, block_id, rest, repaired_related) ==
  repair_references(reference.known, block_id, rest,
                    Append(repaired_related, reference.entity_id))

RECURSIVE repair_topics(_, _, _, _)
RECURSIVE repaired_topic(_, _, _, _)
\* lines 530-606: the topics in the order of the document, from topic t of
\* block b on; related_entities is the one key that is read and written
repair_topics(known, blocks, b, t) ==
  IF b > Len(blocks) THEN [known |-> known, blocks |-> blocks]
  ELSE IF t > Len(blocks[b].topics) THEN repair_topics(known, blocks, b + 1, 1)
  ELSE repaired_topic(
         repair_references(known, blocks[b].block_id,
                           unique_texts(blocks[b].topics[t].related_entities, {}), <<>>),
         blocks, b, t)

repaired_topic(repaired, blocks, b, t) ==
  repair_topics(repaired.known,
                [blocks EXCEPT ![b].topics[t].related_entities =
                   unique_texts(repaired.related, {})],
                b, t + 1)

\* lines 608-617: an owner that is no block of the agenda is reset
repair_owners(entities, block_id_set) ==
  [i \in 1..Len(entities) |->
     [entities[i] EXCEPT
        !.owner_block_id = IF @ \notin block_id_set THEN <<>> ELSE @,
        !.aliases = @ \cup {entities[i].label}]]

repaired_payload(repaired, ideation) ==
  [ideation EXCEPT
     !.blocks = repaired.blocks,
     !.entity_registry = repair_owners(repaired.known.entities,
                                       BlockIds(repaired.blocks))]

repair_blocks(blocks, ideation) ==
  repaired_payload(
    repair_topics(repair_registry(ideation.entity_registry, 1,
                                  [entities |-> <<>>, used |-> {}, clone_cache |-> {},
                                   synthetic_index |-> 0]),
                  blocks, 1, 1),
    ideation)

\* repair_research_entity_links on a payload whose research_agenda has a
\* list of blocks, one at least, and a list as entity_registry
repair_research_entity_links(ideation) ==
  repair_blocks(repair_block_ids(ideation.blocks, 1), ideation)

\* ------------------------------------------------------------------ state
\* no ingesting command has run
NoPayloadGiven == [stage |-> "none"]

VARIABLES
  agenda,              \* ideation.research_agenda: topic id -> topic record
  execution,           \* ideation.research_execution as persisted
  research_completed,  \* state["research-completed"] as persisted
  result,              \* the last command: its arguments, exit code and output
                       \* (resumed: start returned a pass that was in progress)
  data,                \* the workflow part of the document: workflow and the
                       \* legacy flags
  cadence_json,        \* the file .cadence/cadence.json: "valid" (an object
                       \* holding the values above), "invalid" (not JSON) or
                       \* "missing"
  ideation_payload     \* the ideation payload handed to an ingesting command,
                       \* then what the command made of it

vars ==
  <<agenda, execution, research_completed, result, data, cadence_json, ideation_payload>>

\* Every result entry of a payload carries one source with this url.
NoPayload ==
  [topics_is_list |-> TRUE, ids |-> <<>>,
   results |-> [t \in Topics |-> [status |-> "needs_followup", unresolved |-> FALSE]],
   source_url |-> "https://example.com/1", chars |-> 0]

Result(cmd, ack, pass_arg, payload, out, reported) ==
  [cmd |-> cmd, ack |-> ack, pass_arg |-> pass_arg, payload |-> payload,
   exit |-> out.exit, error |-> out.error, pass |-> out.pass,
   research_complete |-> out.research_complete, reported_status |-> reported,
   resumed |-> FALSE]

\* The projects checked: an agenda with the target_effort_per_pass and
\* max_topics_per_pass its operator configured, and the topic_status_overrides
\* of the document.  The light agenda fills a pass by topic count; the heavy
\* one by effort, and holds a topic above the target.  The last two are
\* documents with an empty queue in which a topic already needs a follow-up
\* while another was never attempted: one topic per pass, and two topics that
\* fit one pass.
NoOverrides == [t \in {} |-> [status |-> "pending", passes_attempted |-> 0]]

Projects ==
  {[agenda |-> AgendaLight,
    planning |-> [target_effort_per_pass |-> 12, max_topics_per_pass |-> 2,
                  latest_round |-> 0],
    topic_status_overrides |-> NoOverrides],
   [agenda |-> AgendaHeavy,
    planning |-> [target_effort_per_pass |-> 9, max_topics_per_pass |-> 4,
                  latest_round |-> 0],
    topic_status_overrides |-> NoOverrides],
   [agenda |-> AgendaLight,
    planning |-> [target_effort_per_pass |-> 10, max_topics_per_pass |-> 1,
                  latest_round |-> 0],
    topic_status_overrides |->
      [t \in {"topic-a", "topic-c"} |->
         IF t = "topic-a" THEN [status |-> "needs_followup", passes_attempted |-> 2]
         ELSE [status |-> "complete", passes_attempted |-> 1]]],
   [agenda |-> AgendaLight,
    planning |-> [target_effort_per_pass |-> 12, max_topics_per_pass |-> 4,
                  latest_round |-> 0],
    topic_status_overrides |->
      [t \in {"topic-a", "topic-c"} |->
         IF t = "topic-a" THEN [status |-> "needs_followup", passes_attempted |-> 2]
         ELSE [status |-> "complete", passes_attempted |-> 1]]]}

\* build_cadence_state: existing.update(updates) on the reset topic_status
override_topic_status(topic_status, overrides) ==
  [t \in DOMAIN topic_status |->
     IF t \in DOMAIN overrides
     THEN [topic_status[t] EXCEPT !.status = overrides[t].status,
                                  !.passes_attempted = overrides[t].passes_attempted]
     ELSE topic_status[t]]

\* The default plan extended by a milestone of its own: a task next to a wave
\* of two tasks.
ExtendedPlan ==
  default_workflow_plan \o
  <<Item("milestone-research", "", <<
      Item("task-research", "", <<>>),
      Item("wave-review", "", <<
        Item("task-review-a", "", <<>>),
        Item("task-review-b", "", <<>>)>>)>>)>>

\* The same plan as a document edited by hand: statuses of items with
\* children that do not follow from the children, and a status that is not
\* a valid one.
StalePlan ==
  default_workflow_plan \o
  <<Item("milestone-research", "complete", <<
      Item("task-research", "in_progress", <<>>),
      Item("wave-review", "skipped", <<
        Item("task-review-a", "done", <<>>),
        Item("task-review-b", "blocked", <<>>)>>)>>)>>

RawData(plan, prerequisites_pass, ideation_completed) ==
  [prerequisites_pass |-> prerequisites_pass, ideation_completed |-> ideation_completed,
   workflow |-> [plan |-> plan, next_item |-> "", next_route |-> "",
                 completion_percent |-> 0]]

\* build_cadence_state: the setup tasks complete, the .cadence directory there
ResearchReadyData == reconcile_workflow_state(RawData(ExtendedPlan, TRUE, TRUE), TRUE)

Init ==
  /\ data = ResearchReadyData
  /\ cadence_json = "valid"
  /\ ideation_payload = NoPayloadGiven
  /\ \E project \in Projects :
       /\ agenda = project.agenda
       /\ execution = [reset_research_execution EXCEPT
                         !.planning = project.planning,
                         !.topic_status =
                            override_topic_status(@, project.topic_status_overrides)]
  /\ research_completed = FALSE
  /\ result = Result("init", FALSE, <<0, 0>>, NoPayload,
                     Output(reset_research_execution, FALSE, 0, ""), "")

\* ---------------------------------------------------------------- actions
\* Caps an operator writes into the persisted planning block while a pass is
\* being worked on (the planning_overrides of the test fixtures).
PlanningOverrides ==
  {[max_passes_per_topic |-> 1],
   [max_total_passes |-> 1],
   [max_passes_per_chat |-> 1]}

\* planning.update(overrides)
UpdatePlanning(planning, overrides) ==
  [key \in DOMAIN planning \cup DOMAIN overrides |->
     IF key \in DOMAIN overrides THEN overrides[key] ELSE planning[key]]

WritePlanningOverrides ==
  /\ result.cmd = "start" /\ result.pass # <<>>
  /\ execution.pass_history = <<>>
  /\ \E overrides \in PlanningOverrides :
       execution' = [execution EXCEPT !.planning = UpdatePlanning(@, overrides)]
  /\ result' = Result("edit", FALSE, <<0, 0>>, NoPayload,
                      Output(execution, TRUE, 0, ""), "")
  /\ UNCHANGED <<agenda, research_completed, data, cadence_json, ideation_payload>>

Status ==
  LET loaded == load_state(execution)
  IN /\ result' = Result("status", FALSE, <<0, 0>>, NoPayload,
                         Output(execution, FALSE, 0, ""), loaded.status)
     /\ UNCHANGED <<agenda, execution, research_completed, data, cadence_json, ideation_payload>>

StartsNewPass(out) ==
  /\ out.pass # <<>>
  /\ \A i \in 1..Len(execution.pass_queue) :
       ~(execution.pass_queue[i].pass_id = out.pass[1].pass_id
         /\ execution.pass_queue[i].status = "in_progress")

\* save_state and the printed output of start
StartSaved(out, ack_handoff) ==
  /\ execution' = IF out.save THEN out.execution ELSE execution
  /\ research_completed' =
       IF ~out.save THEN research_completed
       ELSE IF out.pass = <<>> THEN TRUE
       ELSE out.execution.status = "complete"
  /\ result' = [Result("start", ack_handoff, <<0, 0>>, NoPayload, out,
                       out.execution.status)
                  EXCEPT !.resumed = out.pass # <<>> /\ ~StartsNewPass(out)]
  /\ UNCHANGED <<agenda, data, cadence_json, ideation_payload>>

\* no new pass is started once MaxHistory passes are archived
StartEffect(out, ack_handoff) ==
  /\ StartsNewPass(out) => Len(execution.pass_history) < MaxHistory
  /\ StartSaved(out, ack_handoff)

Start ==
  \E ack_handoff \in BOOLEAN :
    \E out \in {handle_start(execution, agenda, ack_handoff)} :
      StartEffect(out, ack_handoff)

\* The pass ids a caller may name: the first queued pass of each status, the
\* last archived pass, and an id that was never planned.
PassIdArgs ==
  {entry.pass_id : entry \in Range(FirstWithStatus(execution.pass_queue, "in_progress"))}
    \cup {entry.pass_id : entry \in Range(FirstWithStatus(execution.pass_queue, "pending"))}
    \cup {execution.pass_history[i].pass_id : i \in {Len(execution.pass_history)} \ {0}}
    \cup {<<0, 0>>}

InProgressTopicIds(pass_id) ==
  LET queue == execution.pass_queue
      found == in_progress_matches(queue, pass_id)
  IN IF found = {} THEN <<>>
     ELSE SelectSeqIdx(queue[CHOOSE i \in found : \A j \in found : i <= j].topic_ids,
                       1, Topics)

\* The topic id lists tried for a pass: its topics, one topic left out, one
\* topic twice, and a topic of another pass added.
PayloadIdLists(pass_topic_ids) ==
  IF pass_topic_ids = <<>> THEN {<<>>}
  ELSE {pass_topic_ids,
        SubSeq(pass_topic_ids, 1, Len(pass_topic_ids) - 1),
        Append(pass_topic_ids, pass_topic_ids[1])}
       \cup {Append(pass_topic_ids, t) : t \in Topics \ Range(pass_topic_ids)}

\* What a result entry may report for its topic.
ResultChoices ==
  {[status |-> "complete", unresolved |-> FALSE],
   [status |-> "complete", unresolved |-> TRUE],
   [status |-> "needs_followup", unresolved |-> TRUE]}

\* The payloads tried for a pass: one whose topics member is not a list, one
\* for each defective id list (a rejected payload is read no further than its
\* ids), and for the pass's own ids every choice of results and both sizes.
Payloads(pass_topic_ids) ==
  LET shell == [NoPayload EXCEPT !.chars = CHOOSE c \in PayloadChars :
                                              \A d \in PayloadChars : c <= d]
  IN IF pass_topic_ids = <<>> THEN {shell}
     ELSE {[shell EXCEPT !.topics_is_list = FALSE]}
          \cup {[shell EXCEPT !.ids = ids] :
                  ids \in PayloadIdLists(pass_topic_ids) \ {pass_topic_ids}}
          \cup {[shell EXCEPT !.ids = pass_topic_ids,
                              !.results = [t \in Topics |->
                                 IF t \in DOMAIN chosen THEN chosen[t] ELSE @[t]],
                              !.chars = chars] :
                  chosen \in [Range(pass_topic_ids) -> ResultChoices],
                  chars \in PayloadChars}

\* save_state and the printed output of complete
CompleteEffect(out, pass_id, payload) ==
  /\ execution' = IF out.save THEN out.execution ELSE execution
  /\ research_completed' =
       IF out.save THEN out.research_complete ELSE research_completed
  /\ result' = Result("complete", FALSE, pass_id, payload, out, out.execution.status)
  /\ UNCHANGED <<agenda, data, cadence_json, ideation_payload>>

CompletePass(pass_id, pass_topic_ids) ==
  \E payload \in Payloads(pass_topic_ids) :
    \E out \in {handle_complete(execution, agenda, pass_id, payload)} :
      CompleteEffect(out, pass_id, payload)

Complete ==
  \E pass_id \in PassIdArgs : CompletePass(pass_id, InProgressTopicIds(pass_id))

Next == WritePlanningOverrides \/ Status \/ Start \/ Complete

Spec == Init /\ [][Next]_vars

\* -------------------------------------------------- caller specification
\* A caller that alternates the two commands: start, acknowledging a handoff
\* whenever one is pending, and, once start has returned a pass, complete for
\* that pass with a full valid payload of any reported statuses.  It takes up
\* the documents in which a topic already needs a follow-up.  A command that
\* can be run is run in the end: the caller does not stop while a command of
\* its turn would change the document or its output.
CallerProjects == {project \in Projects : project.topic_status_overrides # NoOverrides}

CallerInit ==
  /\ data = ResearchReadyData
  /\ cadence_json = "valid"
  /\ ideation_payload = NoPayloadGiven
  /\ \E project \in CallerProjects :
       /\ agenda = project.agenda
       /\ execution = [reset_research_execution EXCEPT
                         !.planning = project.planning,
                         !.topic_status =
                            override_topic_status(@, project.topic_status_overrides)]
  /\ research_completed = FALSE
  /\ result = Result("init", FALSE, <<0, 0>>, NoPayload,
                     Output(reset_research_execution, FALSE, 0, ""), "")

AwaitingComplete == result.cmd = "start" /\ result.exit = 0 /\ result.pass # <<>>

FullPayloads(pass_topic_ids) ==
  {[NoPayload EXCEPT !.ids = pass_topic_ids,
                     !.results = [t \in Topics |->
                        IF t \in DOMAIN chosen THEN chosen[t] ELSE @[t]],
                     !.chars = chars] :
     chosen \in [Range(pass_topic_ids) -> ResultChoices],
     chars \in PayloadChars}

CallerStart ==
  /\ ~AwaitingComplete
  /\ \E out \in {handle_start(execution, agenda, execution.handoff_required)} :
       StartSaved(out, execution.handoff_required)

CallerComplete ==
  /\ AwaitingComplete
  /\ \E payload \in FullPayloads(InProgressTopicIds(result.pass[1].pass_id)) :
       \E out \in {handle_complete(execution, agenda, result.pass[1].pass_id, payload)} :
         CompleteEffect(out, result.pass[1].pass_id, payload)

CallerNext == CallerStart \/ CallerComplete

CallerSpec ==
  CallerInit /\ [][CallerNext]_vars /\ WF_vars(CallerStart) /\ WF_vars(CallerComplete)

\* ------------------------------------------------ workflow specification
\* The callers of workflow_state.py on a document whose research part is
\* left alone.
WorkflowInit ==
  /\ data \in {default_data, RawData(ExtendedPlan, FALSE, FALSE),
               RawData(StalePlan, TRUE, FALSE)}
  /\ cadence_json = "valid"
  /\ ideation_payload = NoPayloadGiven
  /\ agenda = AgendaLight
  /\ execution = reset_research_execution
  /\ research_completed = FALSE
  /\ result = Result("init", FALSE, <<0, 0>>, NoPayload,
                     Output(reset_research_execution, FALSE, 0, ""), "")

RECURSIVE LeafIds(_)
LeafIds(items) ==
  IF items = <<>> THEN {}
  ELSE (IF Head(items).children = <<>> THEN {Head(items).id}
        ELSE LeafIds(Head(items).children))
       \cup LeafIds(Tail(items))

\* item ids a caller may name: every leaf of the plan, two items with
\* children, an id the plan lacks and the empty id
WorkflowItemIds ==
  LeafIds(ExtendedPlan) \cup {"wave-review", "milestone-foundation", "task-missing", ""}

Reconcile ==
  /\ \E cadence_dir_exists \in BOOLEAN :
       data' = reconcile_workflow_state(data, cadence_dir_exists)
  /\ UNCHANGED <<agenda, execution, research_completed, result, cadence_json, ideation_payload>>

SetWorkflowItemStatus ==
  /\ \E item_id \in WorkflowItemIds, status \in VALID_STATUSES, cadence_dir_exists \in BOOLEAN :
       data' = set_workflow_item_status(data, item_id, status, cadence_dir_exists).data
  /\ UNCHANGED <<agenda, execution, research_completed, result, cadence_json, ideation_payload>>

WorkflowNext == Reconcile \/ SetWorkflowItemStatus

WorkflowSpec == WorkflowInit /\ [][WorkflowNext]_vars

\* ------------------------------------------------------ plan specification
\* A plan of any depth: after the default plan a milestone of one task, then
\* a task that is an item of the plan itself, under no milestone.
TopLevelTaskPlan ==
  default_workflow_plan \o
  <<Item("milestone-research", "", <<Item("task-research", "", <<>>)>>),
    Item("task-release", "", <<>>)>>

\* item ids a caller may name: every leaf of the plan, an item with children,
\* and no id
PlanItemIds == LeafIds(TopLevelTaskPlan) \cup {"milestone-foundation", ""}

PlanInit ==
  /\ data \in {RawData(TopLevelTaskPlan, FALSE, FALSE), RawData(TopLevelTaskPlan, TRUE, TRUE)}
  /\ cadence_json = "valid"
  /\ ideation_payload = NoPayloadGiven
  /\ agenda = AgendaLight
  /\ execution = reset_research_execution
  /\ research_completed = FALSE
  /\ result = Result("init", FALSE, <<0, 0>>, NoPayload,
                     Output(reset_research_execution, FALSE, 0, ""), "")

SetPlanItemStatus ==
  /\ \E item_id \in PlanItemIds, status \in VALID_STATUSES, cadence_dir_exists \in BOOLEAN :
       data' = set_workflow_item_status(data, item_id, status, cadence_dir_exists).data
  /\ UNCHANGED <<agenda, execution, research_completed, result, cadence_json, ideation_payload>>

PlanNext == Reconcile \/ SetPlanItemStatus

PlanSpec == PlanInit /\ [][PlanNext]_vars

\* ---------------------------------------------------- route specification
\* The commands as they are entered: the route guard on its own, and
\* run-research-pass.py from main, on a document at one of five places of
\* its workflow or on a file that is not valid JSON or is missing.
ReviewReadyData ==
  set_workflow_item_status(ResearchReadyData, "task-research", "complete", TRUE).data

LastReviewData ==
  set_workflow_item_status(ReviewReadyData, "task-review-a", "skipped", TRUE).data

CompleteData ==
  set_workflow_item_status(LastReviewData, "task-review-b", "complete", TRUE).data

\* The project of the heavy agenda.
RouteProjects == {project \in Projects : project.agenda = AgendaHeavy}

RouteInit ==
  /\ \/ /\ cadence_json = "valid"
        /\ data \in {default_data, ResearchReadyData, ReviewReadyData, LastReviewData,
                     CompleteData}
     \/ /\ cadence_json \in {"invalid", "missing"}
        /\ data = default_data
  /\ ideation_payload = NoPayloadGiven
  /\ \E project \in RouteProjects :
       /\ agenda = project.agenda
       /\ execution = [reset_research_execution EXCEPT
                         !.planning = project.planning,
                         !.topic_status =
                            override_topic_status(@, project.topic_status_overrides)]
  /\ research_completed = FALSE
  /\ result = Result("init", FALSE, <<0, 0>>, NoPayload,
                     Output(reset_research_execution, FALSE, 0, ""), "")

\* skill names a caller may pass, stripped: --skill-name "" is the empty one
RequestedSkills == {"scaffold", "researcher", "planner", ""}

\* assert-workflow-route.py: it prints and exits; the document is not written
AssertWorkflowRoute ==
  /\ \E requested_skill \in RequestedSkills, allow_complete \in BOOLEAN :
       result' = [cmd |-> "assert-workflow-route", requested_skill |-> requested_skill,
                  allow_complete |-> allow_complete,
                  exit |-> assert_workflow_route(cadence_json, data, requested_skill,
                                                 allow_complete).exit,
                  error |-> assert_workflow_route(cadence_json, data, requested_skill,
                                                  allow_complete).error]
  /\ UNCHANGED <<agenda, execution, research_completed, data, cadence_json, ideation_payload>>

\* assert_researcher_route: the guard's exit code becomes the command's
assert_researcher_route(file, document) ==
  assert_workflow_route(file, document, "researcher", FALSE)

\* load_state of run-research-pass.py: the ValueError it raises, if any
load_state_error(file) ==
  IF file = "missing" THEN "MISSING_CADENCE_STATE"
  ELSE IF file = "invalid" THEN "INVALID_CADENCE_JSON"
  ELSE ""

\* a command that ends before its handler has a state to work on
CommandEnds(cmd, exit, error) ==
  /\ result' = Result(cmd, FALSE, <<0, 0>>, NoPayload,
                      Output(execution, FALSE, exit, error), "")
  /\ UNCHANGED <<agenda, execution, research_completed, data, cadence_json, ideation_payload>>

\* handle_status
StatusCommand ==
  IF load_state_error(cadence_json) # ""
  THEN CommandEnds("status", 2, load_state_error(cadence_json))
  ELSE Status

\* handle_start: the guard, load_state, then the handler
StartGuarded(guard) ==
  IF guard.exit # 0 THEN CommandEnds("start", guard.exit, guard.error)
  ELSE IF load_state_error(cadence_json) # ""
  THEN CommandEnds("start", 2, load_state_error(cadence_json))
  ELSE Start

StartCommand == StartGuarded(assert_researcher_route(cadence_json, data))

\* handle_complete
CompleteGuarded(guard) ==
  IF guard.exit # 0 THEN CommandEnds("complete", guard.exit, guard.error)
  ELSE IF load_state_error(cadence_json) # ""
  THEN CommandEnds("complete", 2, load_state_error(cadence_json))
  ELSE Complete

CompleteCommand == CompleteGuarded(assert_researcher_route(cadence_json, data))

RouteNext == AssertWorkflowRoute \/ StatusCommand \/ StartCommand \/ CompleteCommand

RouteSpec == RouteInit /\ [][RouteNext]_vars

\* --------------------------------------------------- agenda specification
\* normalize_ideation_research, alone and after repair_research_entity_links,
\* applied to the ideation payloads of a bounded set: an entity x that
\* topics reference under either key or only mention by its alias, declared
\* with any block of the agenda, a block the agenda lacks or no block as its
\* owner, declared twice, or not declared; an entity y that shares the
\* alias.
EntityX == <<"x">>

EntityY == <<"y">>

AliasX == <<"xray">>

BlockA == <<"a">>

BlockB == <<"b">>

BlockC == <<"c">>

\* blocks in the order of the document, each with the ids of its topics
AgendaLayouts ==
  {<<[block_id |-> BlockA, topic_ids |-> <<"topic-one">>],
     [block_id |-> BlockB, topic_ids |-> <<"topic-two">>]>>,
   <<[block_id |-> BlockB, topic_ids |-> <<"topic-two">>],
     [block_id |-> BlockA, topic_ids |-> <<"topic-one">>]>>,
   <<[block_id |-> BlockA, topic_ids |-> <<"topic-one", "topic-three">>],
     [block_id |-> BlockB, topic_ids |-> <<"topic-two">>]>>,
   <<[block_id |-> BlockA, topic_ids |-> <<"topic-one">>],
     [block_id |-> BlockB, topic_ids |-> <<"topic-two">>],
     [block_id |-> BlockC, topic_ids |-> <<"topic-three">>]>>}

\* what a topic says of the entity: nothing, a reference under one of the
\* two keys, and the alias in its title or not
TopicChoices ==
  {[related_entities |-> refs[1], entity_ids |-> refs[2], words |-> words] :
     refs \in {<<<<>>, <<>>>>, <<<<EntityX>>, <<>>>>, <<<<>>, <<EntityX>>>>},
     words \in {{}, {AliasX}}}

TopicIds == {"topic-one", "topic-two", "topic-three"}

PayloadBlocks(layout, chosen) ==
  [b \in 1..Len(layout) |->
     [block_id |-> layout[b].block_id,
      topics |-> [t \in 1..Len(layout[b].topic_ids) |->
                    [topic_id |-> layout[b].topic_ids[t],
                     related_entities |-> chosen[layout[b].topic_ids[t]].related_entities,
                     entity_ids |-> chosen[layout[b].topic_ids[t]].entity_ids,
                     words |-> chosen[layout[b].topic_ids[t]].words]]]]

RegistryEntry(entity_id, aliases, owner_block_id) ==
  [entity_id |-> entity_id, label |-> <<>>, aliases |-> aliases,
   owner_block_id |-> owner_block_id]

EntityRegistries ==
  {<<>>}
    \cup {<<RegistryEntry(EntityX, aliases, owner)>> :
            aliases \in {{}, {AliasX}}, owner \in {<<>>, BlockA, BlockB, BlockC}}
    \cup {<<RegistryEntry(EntityX, {AliasX}, owner),
            RegistryEntry(EntityY, {AliasX}, <<>>)>> : owner \in {<<>>, BlockA}}
    \cup {<<RegistryEntry(EntityX, {AliasX}, BlockA),
            RegistryEntry(EntityX, {}, owner)>> : owner \in {<<>>, BlockB}}

IdeationPayloads ==
  {[stage |-> "payload",
    blocks |-> PayloadBlocks(layout, chosen),
    entity_registry |-> entity_registry] :
     layout \in AgendaLayouts, chosen \in [TopicIds -> TopicChoices],
     entity_registry \in EntityRegistries}

AgendaInit ==
  /\ ideation_payload \in IdeationPayloads
  /\ data = default_data
  /\ cadence_json = "valid"
  /\ agenda = AgendaLight
  /\ execution = reset_research_execution
  /\ research_completed = FALSE
  /\ result = Result("init", FALSE, <<0, 0>>, NoPayload,
                     Output(reset_research_execution, FALSE, 0, ""), "")

\* what was made of a payload, next to the payload as it was given
Ingested(path, given, outcome) ==
  [stage |-> outcome.stage, error |-> outcome.error, blocks |-> outcome.blocks,
   entity_registry |-> outcome.entity_registry, path |-> path,
   given |-> [blocks |-> given.blocks, entity_registry |-> given.entity_registry]]

NormalizeIdeationResearch ==
  /\ ideation_payload.stage = "payload"
  /\ ideation_payload' =
       Ingested("normalize", ideation_payload,
                normalize_ideation_research(ideation_payload))
  /\ UNCHANGED <<agenda, execution, research_completed, result, data, cadence_json>>

\* complete_flow of run-brownfield-documentation.py, lines 646-647
RepairThenNormalize ==
  /\ ideation_payload.stage = "payload"
  /\ ideation_payload' =
       Ingested("repair", ideation_payload,
                normalize_ideation_research(
                  repair_research_entity_links(ideation_payload)))
  /\ UNCHANGED <<agenda, execution, research_completed, result, data, cadence_json>>

AgendaNext == NormalizeIdeationResearch \/ RepairThenNormalize

AgendaSpec == AgendaInit /\ [][AgendaNext]_vars

\* ------------------------------------------------- close to the total cap
\* An agenda of more topics than the three kept here, planned one topic to a
\* pass in a single round.  The passes of the other topics are archived, each
\* reported complete; their topic records and the topics of their history
\* entries are left out.  The passes of the three topics are still queued.
ArchivedEarlier == {PlanningDefaults.max_total_passes - k : k \in 1..MaxHistory}

EarlierPass(pass_index) ==
  [pass_id |-> PassId(1, pass_index), round |-> 1, topics |-> <<>>, source_ids |-> {}]

OneTopicPerPass ==
  planning_config([target_effort_per_pass |-> 10, max_topics_per_pass |-> 1,
                   latest_round |-> 1])

RemainingPasses(archived) ==
  [i \in 1..3 |->
     NewPass(1, archived + i,
             <<<<"topic-a", "topic-b", "topic-c">>[i]>>,
             topic_effort(AgendaLight[<<"topic-a", "topic-b", "topic-c">>[i]]))]

TotalCapInit ==
  /\ data = ResearchReadyData
  /\ cadence_json = "valid"
  /\ ideation_payload = NoPayloadGiven
  /\ agenda = AgendaLight
  /\ \E archived \in ArchivedEarlier :
       execution = [reset_research_execution EXCEPT
                      !.status = "in_progress",
                      !.planning = OneTopicPerPass,
                      !.pass_queue = RemainingPasses(archived),
                      !.pass_history = [i \in 1..archived |-> EarlierPass(i)]]
  /\ research_completed = FALSE
  /\ result = Result("init", FALSE, <<0, 0>>, NoPayload,
                     Output(reset_research_execution, FALSE, 0, ""), "")

\* start as the script runs it; the caps of the script end the run
StartAny ==
  \E ack_handoff \in BOOLEAN :
    \E out \in {handle_start(execution, agenda, ack_handoff)} :
      StartSaved(out, ack_handoff)

TotalCapNext == Status \/ StartAny \/ Complete

TotalCapSpec == TotalCapInit /\ [][TotalCapNext]_vars

\* ------------------------------------------------------------ properties
RECURSIVE EffortSum(_, _)
EffortSum(topic_ids, i) ==
  IF i > Len(topic_ids) THEN 0
  ELSE topic_effort(agenda[topic_ids[i]]) + EffortSum(topic_ids, i + 1)

\* this step planned a new round
Replanned == execution'.planning.latest_round # execution.planning.latest_round

PassWithinCapacity(pass_entry, planning) ==
  /\ Len(pass_entry.topic_ids) >= 1
  /\ Len(pass_entry.topic_ids) <= planning.max_topics_per_pass
  /\ \/ EffortSum(pass_entry.topic_ids, 1) <= planning.target_effort_per_pass
     \/ Len(pass_entry.topic_ids) = 1

\* C1: every pass of a round planned by start or complete holds between one
\* and max_topics_per_pass topics, and its summed topic_effort is at most
\* target_effort_per_pass unless it holds exactly one topic.
C1_PassCapacity ==
  [][Replanned =>
       \A i \in 1..Len(execution'.pass_queue) :
         PassWithinCapacity(execution'.pass_queue[i], execution'.planning)]_vars

\* A second round was planned and holds a pass of several topics next to
\* another pass.
C1_Witness ==
  /\ execution.planning.latest_round >= 2
  /\ Len(execution.pass_queue) >= 2
  /\ \E i \in 1..Len(execution.pass_queue) :
       /\ execution.pass_queue[i].round = execution.planning.latest_round
       /\ Len(execution.pass_queue[i].topic_ids) >= 2

\* C2: a start invoked while pass P is in progress returns P (same pass_id
\* and topic_ids), leaves every queue entry as it was, and P stays the only
\* in_progress entry.
C2_IdempotentStart ==
  [][(result'.cmd = "start" /\ HasStatus(execution.pass_queue, "in_progress")) =>
       LET k == QueueIndex(execution.pass_queue, "in_progress")
       IN /\ result'.exit = 0
          /\ result'.pass # <<>>
          /\ result'.pass[1].pass_id = execution.pass_queue[k].pass_id
          /\ result'.pass[1].topic_ids = execution.pass_queue[k].topic_ids
          /\ execution'.pass_queue = execution.pass_queue
          /\ \A i \in 1..Len(execution'.pass_queue) :
               execution'.pass_queue[i].status = "in_progress" <=> i = k]_vars

\* start has returned the pass that was already in progress, with another pass
\* still waiting behind it
C2_Witness ==
  /\ result.cmd = "start" /\ result.resumed
  /\ HasStatus(execution.pass_queue, "in_progress")
  /\ HasStatus(execution.pass_queue, "pending")

\* a complete invocation that was accepted
CompleteAccepted == result'.cmd = "complete" /\ result'.exit = 0

\* what the accepted payload reports for topic t
Reported(t) == result'.payload.results[t]

ReportedTopics == Range(result'.payload.ids)

QueuedTopics(queue) == UNION {Range(queue[i].topic_ids) : i \in 1..Len(queue)}

\* C3: with max_total_passes = 1 stored in the persisted planning block, one
\* accepted complete leaves the execution complete, the queue empty, and every
\* topic that was still active complete_with_caveats.
C3_TotalCapTermination ==
  [][(/\ CompleteAccepted
      /\ "max_total_passes" \in DOMAIN execution.planning
      /\ execution.planning.max_total_passes = 1) =>
       /\ execution'.status = "complete"
       /\ execution'.pass_queue = <<>>
       /\ \A t \in unresolved_topics(execution) :
            ~(/\ t \in ReportedTopics
              /\ Reported(t).status = "complete"
              /\ ~Reported(t).unresolved)
              => execution'.topic_status[t].status = "complete_with_caveats"]_vars

\* C4: when an accepted complete raises a topic's passes_attempted to the
\* max_passes_per_topic stored in the persisted planning block and reports the
\* topic needs_followup, the topic is persisted complete_with_caveats with a
\* pass-cap note among its unresolved questions and sits in no queued pass.
C4_TopicCap ==
  [][CompleteAccepted =>
       \A t \in ReportedTopics :
         (/\ "max_passes_per_topic" \in DOMAIN execution.planning
          /\ execution.topic_status[t].passes_attempted + 1
               = execution.planning.max_passes_per_topic
          /\ Reported(t).status = "needs_followup") =>
           /\ execution'.topic_status[t].status = "complete_with_caveats"
           /\ CapNote("topic_cap", execution.planning.max_passes_per_topic)
                \in execution'.topic_status[t].unresolved_questions
           /\ t \notin QueuedTopics(execution'.pass_queue)]_vars

\* C5: a topic persisted as complete or complete_with_caveats is never
\* persisted as pending, in_progress or needs_followup by a later command.
C5_TerminalStatuses ==
  [][\A t \in Topics :
       execution.topic_status[t].status \in TOPIC_COMPLETE_STATUSES
         => execution'.topic_status[t].status \in TOPIC_COMPLETE_STATUSES]_vars

\* C6: a topic reported complete with an unresolved question is persisted by
\* that complete as complete_with_caveats; one reported complete with none is
\* persisted as complete.
C6_CompleteDowngrade ==
  [][CompleteAccepted =>
       \A t \in ReportedTopics :
         Reported(t).status = "complete" =>
           execution'.topic_status[t].status =
             IF Reported(t).unresolved THEN "complete_with_caveats" ELSE "complete"]_vars

\* one pass was completed with both kinds of report and each was persisted
C6_Witness ==
  /\ result.cmd = "complete" /\ result.exit = 0
  /\ \E t, u \in Range(result.payload.ids) :
       /\ result.payload.results[t] = [status |-> "complete", unresolved |-> TRUE]
       /\ execution.topic_status[t].status = "complete_with_caveats"
       /\ result.payload.results[u] = [status |-> "complete", unresolved |-> FALSE]
       /\ execution.topic_status[u].status = "complete"

\* the topic ids of the in-progress pass a complete invocation names
NamedPassTopics ==
  LET found == {i \in 1..Len(execution.pass_queue) :
                  /\ execution.pass_queue[i].pass_id = result'.pass_arg
                  /\ execution.pass_queue[i].status = "in_progress"}
  IN IF found = {} THEN <<>> ELSE execution.pass_queue[CHOOSE i \in found : TRUE].topic_ids

OmitsTopic(ids, pass_topic_ids) == \E t \in Range(pass_topic_ids) : t \notin Range(ids)

NamesOutsider(ids, pass_topic_ids) == \E t \in Range(ids) : t \notin Range(pass_topic_ids)

NamesTwice(ids) == \E i, j \in 1..Len(ids) : i < j /\ ids[i] = ids[j]

\* C7: a complete whose payload omits a topic of the in-progress pass, names
\* a topic outside it, or names a topic twice exits 2 with
\* PASS_RESULT_MISSING_TOPICS, PASS_RESULT_TOPIC_NOT_IN_PASS or
\* PASS_RESULT_TOPIC_DUPLICATE respectively, and persists nothing.
C7_InvalidPayloadRejected ==
  [][(/\ result'.cmd = "complete"
      /\ NamedPassTopics # <<>>
      /\ result'.payload.topics_is_list) =>
       LET ids == result'.payload.ids
           omits == OmitsTopic(ids, NamedPassTopics)
           outsider == NamesOutsider(ids, NamedPassTopics)
           twice == NamesTwice(ids)
       IN (omits \/ outsider \/ twice) =>
            /\ result'.exit = 2
            /\ execution' = execution
            /\ research_completed' = research_completed
            /\ (omits /\ ~outsider /\ ~twice)
                 => result'.error = "PASS_RESULT_MISSING_TOPICS"
            /\ (outsider /\ ~omits /\ ~twice)
                 => result'.error = "PASS_RESULT_TOPIC_NOT_IN_PASS"
            /\ (twice /\ ~omits /\ ~outsider)
                 => result'.error = "PASS_RESULT_TOPIC_DUPLICATE"]_vars

\* a payload naming a topic twice was rejected after an earlier pass had been
\* archived, and the pass is still in progress
C7_Witness ==
  /\ result.cmd = "complete" /\ result.exit = 2
  /\ result.error = "PASS_RESULT_TOPIC_DUPLICATE"
  /\ NamesTwice(result.payload.ids)
  /\ execution.pass_history # <<>>
  /\ \E i \in 1..Len(execution.pass_queue) :
       /\ execution.pass_queue[i].pass_id = result.pass_arg
       /\ execution.pass_queue[i].status = "in_progress"

CapNotes(topic_status) ==
  {<<t, note>> \in Topics \X {CapNote(kind, n) : kind \in {"topic_cap", "total_cap"},
                                                  n \in 1..PlanningDefaults.max_total_passes} :
     note \in topic_status[t].unresolved_questions}

\* C8: when an accepted complete removes a pass while another pass is still
\* queued and no cap is reached, the remaining entries keep their pass_id,
\* round, order and topic_ids, planning.latest_round is unchanged, and a topic
\* reported needs_followup enters no queued pass.
C8_NoMidRoundReplan ==
  [][(/\ CompleteAccepted
      /\ Len(execution.pass_queue) >= 2
      /\ CapNotes(execution'.topic_status) \subseteq CapNotes(execution.topic_status)) =>
       LET rest == SelectSeq(execution.pass_queue,
                             LAMBDA entry : entry.pass_id # result'.pass_arg)
       IN /\ Len(execution'.pass_queue) = Len(rest)
          /\ \A i \in 1..Len(rest) :
               /\ execution'.pass_queue[i].pass_id = rest[i].pass_id
               /\ execution'.pass_queue[i].round = rest[i].round
               /\ execution'.pass_queue[i].topic_ids = rest[i].topic_ids
          /\ execution'.planning.latest_round = execution.planning.latest_round
          /\ \A t \in ReportedTopics :
               Reported(t).status = "needs_followup"
                 => t \notin QueuedTopics(execution'.pass_queue)]_vars

\* a pass was completed with a needs_followup topic while a later pass of the
\* same round is still queued
C8_Witness ==
  /\ result.cmd = "complete" /\ result.exit = 0
  /\ \E t \in Range(result.payload.ids) :
       /\ result.payload.results[t].status = "needs_followup"
       /\ execution.topic_status[t].status = "needs_followup"
  /\ execution.pass_queue # <<>>
  /\ \A i \in 1..Len(execution.pass_queue) :
       /\ execution.pass_queue[i].round = result.pass_arg[1]
       /\ execution.pass_queue[i].pass_id[2] > result.pass_arg[2]

\* the largest round recorded in planning.latest_round, the queue and the history
LargestRound(e) ==
  SetMax({PlanningGet(e.planning, "latest_round")}
         \cup {e.pass_queue[i].round : i \in 1..Len(e.pass_queue)}
         \cup {e.pass_history[i].round : i \in 1..Len(e.pass_history)})

\* the command of this step found the queue drained
QueueDrained ==
  /\ result'.exit = 0
  /\ \/ result'.cmd = "start" /\ execution.pass_queue = <<>>
     \/ result'.cmd = "complete" /\ Len(execution.pass_queue) = 1

\* C9: when start or complete finds the queue drained and a topic unresolved,
\* it plans a new round numbered one more than the largest round in
\* planning.latest_round, the queue and the history, with passes named
\* pass-r{round}-01, pass-r{round}-02, ... in queue order.
C9_ReplanRound ==
  [][/\ (QueueDrained /\ unresolved_topics(execution') # {})
          => (Replanned /\ execution'.pass_queue # <<>>)
     /\ Replanned =>
          /\ execution'.planning.latest_round = LargestRound(execution) + 1
          /\ \A i \in 1..Len(execution'.pass_queue) :
               /\ execution'.pass_queue[i].round = execution'.planning.latest_round
               /\ execution'.pass_queue[i].pass_id
                    = PassId(execution'.planning.latest_round, i)]_vars

\* complete drained round 1 and planned round 2 with two passes
C9_Witness ==
  /\ result.cmd = "complete" /\ result.exit = 0
  /\ result.pass_arg[1] = 1
  /\ execution.planning.latest_round = 2
  /\ Len(execution.pass_queue) = 2
  /\ execution.pass_queue[2].pass_id = PassId(2, 2)

\* C10: while handoff_required is persisted true, a start without
\* --ack-handoff exits 2 with RESEARCH_HANDOFF_REQUIRED and persists nothing;
\* the flag is cleared only by a start with --ack-handoff, which is let through.
C10_HandoffGate ==
  [][execution.handoff_required =>
       /\ (result'.cmd = "start" /\ ~result'.ack) =>
            /\ result'.exit = 2
            /\ result'.error = "RESEARCH_HANDOFF_REQUIRED"
            /\ execution' = execution
            /\ research_completed' = research_completed
       /\ ~execution'.handoff_required => (result'.cmd = "start" /\ result'.ack)
       /\ (result'.cmd = "start" /\ result'.ack) =>
            /\ result'.exit = 0
            /\ ~execution'.handoff_required]_vars

\* a start without the acknowledgement was refused and the flag is still set
C10_Witness ==
  /\ result.cmd = "start" /\ ~result.ack
  /\ result.exit = 2 /\ result.error = "RESEARCH_HANDOFF_REQUIRED"
  /\ execution.handoff_required
  /\ HasStatus(execution.pass_queue, "pending")

\* the max_passes_per_chat stored in planning block p (6 when none is stored)
StoredChatCap(p) == PlanningGet(p, "max_passes_per_chat")

\* C11: after an accepted complete that leaves research incomplete,
\* handoff_required is true exactly when estimated_tokens_total has reached
\* threshold_tokens or passes_completed has reached the max_passes_per_chat
\* stored in the persisted planning block; the reason is context_budget in the
\* first case and pass_cap otherwise.
C11_HandoffDecision ==
  [][(CompleteAccepted /\ execution'.status # "complete") =>
       LET context == execution'.chat_context
           over_budget == context.estimated_tokens_total >= context.threshold_tokens
           over_passes == context.passes_completed >= StoredChatCap(execution.planning)
       IN /\ execution'.handoff_required <=> (over_budget \/ over_passes)
          /\ over_budget => execution'.handoff_reason = "context_budget"
          /\ (over_passes /\ ~over_budget) => execution'.handoff_reason = "pass_cap"
          /\ ~(over_budget \/ over_passes) => execution'.handoff_reason = ""]_vars

\* C12: a persisted document whose execution status is complete has
\* handoff_required false, whatever the token total and the pass count are.
C12_NoHandoffWhenComplete ==
  execution.status = "complete" => ~execution.handoff_required

\* the pass that completed the research pushed the token total over the
\* threshold, and no handoff is asked for
C12_Witness ==
  /\ result.cmd = "complete" /\ result.exit = 0
  /\ execution.status = "complete"
  /\ execution.chat_context.estimated_tokens_total
       >= execution.chat_context.threshold_tokens
  /\ ~execution.handoff_required

\* a start that acknowledged a pending handoff and was let through
AcknowledgedStart ==
  /\ result'.cmd = "start" /\ result'.ack /\ result'.exit = 0
  /\ execution.handoff_required

\* C13: session_index grows by one on each start that acknowledges a pending
\* handoff and changes on no other command; passes_completed and the token
\* counters fall back only on such a start, and every accepted complete adds
\* one to passes_completed.
C13_ChatContextReset ==
  [][LET before == execution.chat_context
         after == execution'.chat_context
     IN /\ after.session_index =
             IF AcknowledgedStart THEN before.session_index + 1
             ELSE before.session_index
        /\ (\/ after.passes_completed < before.passes_completed
            \/ after.estimated_tokens_in < before.estimated_tokens_in
            \/ after.estimated_tokens_out < before.estimated_tokens_out)
             => AcknowledgedStart
        /\ CompleteAccepted
             => after.passes_completed = before.passes_completed + 1]_vars


\* C14: across status, start and complete commands the execution status, as
\* persisted and as reported by status, never moves backwards in the order
\* pending, in_progress, complete; once it is complete and research-completed
\* is true, both stay so.
ExecutionStatusRank(status) ==
  CASE status = "pending" -> 0
    [] status = "in_progress" -> 1
    [] status = "complete" -> 2
    [] OTHER -> 0

C14_StatusMonotonic ==
  [][/\ ExecutionStatusRank(execution'.status) >= ExecutionStatusRank(execution.status)
     /\ result'.cmd = "status" =>
          ExecutionStatusRank(result'.reported_status) >= ExecutionStatusRank(execution.status)
     /\ (execution.status = "complete" /\ research_completed) =>
          (execution'.status = "complete" /\ research_completed')]_vars



\* C15: ensure_ideation_research_defaults keeps a stored topic status
\* complete_with_caveats as it is and counts that topic as complete in the
\* execution summary.
StoredCaveated == {t \in Topics : execution.topic_status[t].status = "complete_with_caveats"}

StoredComplete == {t \in Topics : execution.topic_status[t].status = "complete"}

C15_CaveatedKept ==
  LET normalized == load_state(execution)
  IN StoredCaveated # {} =>
       /\ \A t \in StoredCaveated :
            normalized.topic_status[t].status = "complete_with_caveats"
       /\ normalized_topic_complete(normalized.topic_status)
            = Cardinality(StoredComplete \cup StoredCaveated)



\* C16: ensure_ideation_research_defaults keeps max_passes_per_topic and
\* max_total_passes of the stored planning block, raised to at least 1, so
\* the stored caps are the ones the scheduler enforces on the next command.
PlanningCaps == {"max_passes_per_topic", "max_total_passes"}

C16_PlanningCapsKept ==
  \A key \in PlanningCaps :
    key \in DOMAIN execution.planning =>
      LET normalized == load_state(execution).planning
          enforced == apply_planning_config(load_state(execution)).planning
      IN /\ key \in DOMAIN normalized
         /\ normalized[key] = Max2(1, execution.planning[key])
         /\ enforced[key] = Max2(1, execution.planning[key])



\* C17: a replan orders the unresolved topics ascending by the tuple (status
\* rank, passes_attempted, priority rank with high before medium before low,
\* negated effort, topic_id).  The status rank puts pending before in_progress
\* before needs_followup, so every pending topic is placed before every
\* needs_followup topic.
RECURSIVE FlattenQueue(_)
FlattenQueue(queue) ==
  IF queue = <<>> THEN <<>> ELSE Head(queue).topic_ids \o FlattenQueue(Tail(queue))

PendingFirst == <<"pending", "in_progress", "needs_followup">>

FollowupFirst == <<"needs_followup", "in_progress", "pending">>

OrderRank(order, status) ==
  IF \E i \in 1..Len(order) : order[i] = status
  THEN (CHOOSE i \in 1..Len(order) : order[i] = status) - 1
  ELSE 2

\* The status a topic had when the queue was planned: start plans on the
\* loaded document and then marks the first pass in_progress; complete plans
\* on the statuses it persists.
PlanningStatus(t) ==
  IF result'.cmd = "start" THEN _coerce_research_topic_status(execution.topic_status[t].status)
  ELSE execution'.topic_status[t].status

PlannedKey(order, t) ==
  <<OrderRank(order, PlanningStatus(t)),
    execution'.topic_status[t].passes_attempted,
    OrderRank(<<"high", "medium", "low">>, agenda[t].priority),
    0 - topic_effort(agenda[t]),
    TopicRank(t)>>

QueueAscending(order) ==
  LET planned == FlattenQueue(execution'.pass_queue)
  IN \A i, j \in 1..Len(planned) :
       i < j => TupleLess(PlannedKey(order, planned[i]), PlannedKey(order, planned[j]))

PlacedBefore(first, second) ==
  LET planned == FlattenQueue(execution'.pass_queue)
  IN \A i, j \in 1..Len(planned) :
       (PlanningStatus(planned[i]) = second /\ PlanningStatus(planned[j]) = first) => j < i

C17_SortOrder ==
  [][Replanned => (QueueAscending(PendingFirst) /\ PlacedBefore("pending", "needs_followup"))]_vars

\* C17 as stated: needs_followup ranks before in_progress before pending.
C17_SortOrderFollowupFirst ==
  [][Replanned => (QueueAscending(FollowupFirst) /\ PlacedBefore("needs_followup", "pending"))]_vars

\* a completed round replanned with a pending topic ahead of a follow-up
C17_Witness ==
  /\ result.cmd = "complete" /\ result.exit = 0
  /\ execution.pass_queue # <<>>
  /\ \A i \in 1..Len(execution.pass_queue) :
       /\ execution.pass_queue[i].status = "pending"
       /\ execution.pass_queue[i].round = execution.planning.latest_round
  /\ execution.planning.latest_round > 1
  /\ LET planned == FlattenQueue(execution.pass_queue)
     IN \E i, j \in 1..Len(planned) :
          /\ i < j
          /\ execution.topic_status[planned[i]].status = "pending"
          /\ execution.topic_status[planned[j]].status = "needs_followup"



\* C18: when start replans an empty queue, a pending topic that was never
\* attempted is placed ahead of a needs_followup topic that was already
\* attempted: in an earlier pass, or earlier in the same pass when both fit
\* one pass.  With max_topics_per_pass = 1 it is in an earlier pass and the
\* pass returned by start contains such a pending topic.
StartReplansEmptyQueue ==
  /\ result'.cmd = "start" /\ result'.exit = 0
  /\ execution.pass_queue = <<>>
  /\ Replanned

NeverAttemptedPending(t) ==
  /\ _coerce_research_topic_status(execution.topic_status[t].status) = "pending"
  /\ execution.topic_status[t].passes_attempted = 0

AttemptedFollowup(t) ==
  /\ execution.topic_status[t].status = "needs_followup"
  /\ execution.topic_status[t].passes_attempted > 0

PlannedTopics(queue) == Range(FlattenQueue(queue))

PositionOf(queue, t) ==
  CHOOSE i \in 1..Len(FlattenQueue(queue)) : FlattenQueue(queue)[i] = t

PassOf(queue, t) ==
  CHOOSE i \in 1..Len(queue) : t \in Range(queue[i].topic_ids)

ReturnedPassHoldsPending ==
  (PlanningGet(execution.planning, "max_topics_per_pass") = 1
     /\ \E t \in Topics : NeverAttemptedPending(t)) =>
    /\ Len(result'.pass) = 1
    /\ \E t \in Topics : NeverAttemptedPending(t) /\ result'.pass[1].topic_ids = <<t>>

C18_PendingAheadOfFollowup ==
  [][StartReplansEmptyQueue =>
       /\ \A t, u \in PlannedTopics(execution'.pass_queue) :
            (NeverAttemptedPending(t) /\ AttemptedFollowup(u)) =>
              /\ PositionOf(execution'.pass_queue, t) < PositionOf(execution'.pass_queue, u)
              /\ PlanningGet(execution.planning, "max_topics_per_pass") = 1 =>
                   PassOf(execution'.pass_queue, t) < PassOf(execution'.pass_queue, u)
       /\ ReturnedPassHoldsPending]_vars

\* C18 as stated: always in an earlier pass.
C18_PendingInEarlierPass ==
  [][StartReplansEmptyQueue =>
       /\ \A t, u \in PlannedTopics(execution'.pass_queue) :
            (NeverAttemptedPending(t) /\ AttemptedFollowup(u)) =>
              PassOf(execution'.pass_queue, t) < PassOf(execution'.pass_queue, u)
       /\ ReturnedPassHoldsPending]_vars

\* start has just planned one topic per pass: the returned pass holds the
\* topic never attempted, the follow-up waits in the next pass
C18_Witness ==
  /\ result.cmd = "start" /\ result.exit = 0
  /\ execution.pass_history = <<>>
  /\ execution.planning.max_topics_per_pass = 1
  /\ Len(execution.pass_queue) = 2
  /\ Len(result.pass) = 1
  /\ \E t, u \in Topics :
       /\ result.pass[1].topic_ids = <<t>>
       /\ execution.pass_queue[1].topic_ids = <<t>>
       /\ execution.pass_queue[1].status = "in_progress"
       /\ execution.topic_status[t].passes_attempted = 0
       /\ execution.topic_status[t].status = "in_progress"
       /\ execution.pass_queue[2].topic_ids = <<u>>
       /\ execution.topic_status[u].status = "needs_followup"
       /\ execution.topic_status[u].passes_attempted > 0



\* C19: in every document returned by reconcile_workflow_state or
\* set_workflow_item_status, each item with at least one child has status
\* complete if and only if every one of its children has status complete or
\* skipped, at every depth of the tree.
RECURSIVE RollUpCorrect(_)
RollUpCorrect(items) ==
  \A i \in 1..Len(items) :
    /\ items[i].children # <<>> =>
         (items[i].status = "complete" <=>
            \A j \in 1..Len(items[i].children) :
              items[i].children[j].status \in {"complete", "skipped"})
    /\ RollUpCorrect(items[i].children)

ReturnedItem(item_id) == _find_item_by_id(data.workflow.plan, item_id)

RolledAsStated(status, child_statuses) ==
  LET children == 1..Len(child_statuses)
      all_done == \A i \in children : child_statuses[i] \in {"complete", "skipped"}
      all_pending == \A i \in children : child_statuses[i] = "pending"
      any_started == \E i \in children :
                       child_statuses[i] \in {"in_progress", "complete", "skipped"}
      any_blocked == \E i \in children : child_statuses[i] = "blocked"
  IN /\ (~all_done /\ ~all_pending) =>
          IF any_started THEN status = "in_progress"
          ELSE any_blocked => status = "blocked"
     /\ status = "pending" => all_pending

RECURSIVE RollUpTieBreak(_)
RollUpTieBreak(items) ==
  \A i \in 1..Len(items) :
    /\ items[i].children # <<>> =>
         RolledAsStated(items[i].status, ItemStatuses(items[i].children))
    /\ RollUpTieBreak(items[i].children)

C20_RollUpTieBreak == [][RollUpTieBreak(data'.workflow.plan)]_vars

\* a returned document: a wave blocked over a blocked and a pending task, and
\* its milestone in progress over that blocked wave and a task in progress
C20_Witness ==
  /\ data.workflow.next_item # ""
  /\ ReturnedItem("task-review-a").status = "blocked"
  /\ ReturnedItem("task-review-b").status = "pending"
  /\ ReturnedItem("wave-review").status = "blocked"
  /\ ReturnedItem("task-research").status = "in_progress"
  /\ ReturnedItem("milestone-research").status = "in_progress"



\* C21: reconcile_workflow_state is idempotent on statuses: applied a second
\* time with the same cadence_dir_exists to its own output it yields the same
\* status for every item, the same legacy flags and the same next_item.
ReconciledTwiceSame(cadence_dir_exists) ==
  LET once == reconcile_workflow_state(data, cadence_dir_exists)
      twice == reconcile_workflow_state(once, cadence_dir_exists)
  IN /\ twice.workflow.plan = once.workflow.plan
     /\ twice.prerequisites_pass = once.prerequisites_pass
     /\ twice.ideation_completed = once.ideation_completed
     /\ twice.workflow.next_item = once.workflow.next_item

C21_ReconcileIdempotent == \A cadence_dir_exists \in BOOLEAN : ReconciledTwiceSame(cadence_dir_exists)

\* a returned document that a reconcile with the other cadence_dir_exists
\* changes, items with children included
C21_Witness ==
  /\ data.workflow.next_item # ""
  /\ ReturnedItem("task-review-b").status = "blocked"
  /\ \E cadence_dir_exists \in BOOLEAN :
       LET once == reconcile_workflow_state(data, cadence_dir_exists)
       IN /\ _find_item_by_id(once.workflow.plan, "wave-initialize-cadence").status
               # ReturnedItem("wave-initialize-cadence").status
          /\ once.workflow.next_item # data.workflow.next_item
          /\ ReconciledTwiceSame(cadence_dir_exists)



\* C22: set_workflow_item_status called with an id that occurs nowhere in the
\* plan returns found = false and a document with the item statuses, legacy
\* flags and next_item that reconciling the input alone gives; called with an
\* empty id it returns found = false and the input document as it was given,
\* not reconciled.
SameWorkflowState(a, b) ==
  /\ a.workflow.plan = b.workflow.plan
  /\ a.prerequisites_pass = b.prerequisites_pass
  /\ a.ideation_completed = b.ideation_completed
  /\ a.workflow.next_item = b.workflow.next_item

ReturnsReconciled(item_id) ==
  \A status \in VALID_STATUSES, cadence_dir_exists \in BOOLEAN :
    LET returned == set_workflow_item_status(data, item_id, status, cadence_dir_exists)
    IN /\ ~returned.found
       /\ SameWorkflowState(returned.data,
                            reconcile_workflow_state(data, cadence_dir_exists))

ReturnsInput(item_id) ==
  \A status \in VALID_STATUSES, cadence_dir_exists \in BOOLEAN :
    LET returned == set_workflow_item_status(data, item_id, status, cadence_dir_exists)
    IN ~returned.found /\ returned.data = data

C22_AbsentIdNotFound == ReturnsReconciled("task-missing") /\ ReturnsInput("")

\* C22 as stated: the empty id, too, returns the reconciled document.
C22_EmptyIdReconciled == ReturnsReconciled("task-missing") /\ ReturnsReconciled("")

\* a returned document, reconciled when the .cadence directory was there and
\* holding a blocked review task, on which a call without the directory
\* returns found = false: with an absent id the document reconciled anew
\* (task-scaffold pending again), with the empty id the document as it is
C22_Witness ==
  /\ data.workflow.next_item # ""
  /\ ReturnedItem("task-scaffold").status = "complete"
  /\ ReturnedItem("task-review-a").status = "blocked"
  /\ ReturnedItem("wave-review").status = "blocked"
  /\ LET absent == set_workflow_item_status(data, "task-missing", "complete", FALSE)
         empty == set_workflow_item_status(data, "", "complete", FALSE)
     IN /\ ~absent.found /\ ~empty.found
        /\ _find_item_by_id(absent.data.workflow.plan, "task-scaffold").status = "pending"
        /\ _find_item_by_id(absent.data.workflow.plan, "task-review-a").status = "blocked"
        /\ empty.data = data



\* C23: set_workflow_item_status on an existing leaf, a leaf mirrored by a
\* legacy flag included, with status in_progress, blocked or skipped returns
\* found = true and a plan in which that leaf has exactly the requested status.
C23_RequestedStatusKept ==
  \A item_id \in LeafIds(data.workflow.plan), status \in {"in_progress", "blocked", "skipped"},
     cadence_dir_exists \in BOOLEAN :
    LET returned == set_workflow_item_status(data, item_id, status, cadence_dir_exists)
    IN /\ returned.found
       /\ _find_item_by_id(returned.data.workflow.plan, item_id).status = status



\* C24: in every document returned by reconcile_workflow_state, or by
\* set_workflow_item_status called with a non-empty id, each well-known leaf
\* agrees with its legacy signal: task-scaffold is complete/skipped iff
\* cadence_dir_exists, task-prerequisite-gate iff prerequisites-pass, and
\* task-ideation iff state.ideation-completed.
LeafDone(document, item_id) ==
  _find_item_by_id(document.workflow.plan, item_id).status \in {"complete", "skipped"}

LegacyAgrees(document, cadence_dir_exists) ==
  /\ LeafDone(document, "task-scaffold") <=> cadence_dir_exists
  /\ LeafDone(document, "task-prerequisite-gate") <=> document.prerequisites_pass
  /\ LeafDone(document, "task-ideation") <=> document.ideation_completed

SetReturnsLegacyAgreeing(item_ids) ==
  \A item_id \in item_ids, status \in VALID_STATUSES, cadence_dir_exists \in BOOLEAN :
    LegacyAgrees(set_workflow_item_status(data, item_id, status, cadence_dir_exists).data,
                 cadence_dir_exists)

ReconcileReturnsLegacyAgreeing ==
  \A cadence_dir_exists \in BOOLEAN :
    LegacyAgrees(reconcile_workflow_state(data, cadence_dir_exists), cadence_dir_exists)

C24_LegacyLeavesAgree ==
  ReconcileReturnsLegacyAgreeing /\ SetReturnsLegacyAgreeing(WorkflowItemIds \ {""})

\* C24 as stated: every call of set_workflow_item_status, the empty id included.
C24_LegacyLeavesAgreeEveryCall ==
  ReconcileReturnsLegacyAgreeing /\ SetReturnsLegacyAgreeing(WorkflowItemIds)

\* a returned document with the three signals apart (directory there,
\* prerequisites passed, ideation open), from which setting task-ideation
\* complete without the directory returns the flag raised and task-scaffold
\* pending
C24_Witness ==
  /\ data.workflow.next_item = "task-ideation"
  /\ data.prerequisites_pass /\ ~data.ideation_completed
  /\ LegacyAgrees(data, TRUE)
  /\ LET returned == set_workflow_item_status(data, "task-ideation", "complete", FALSE)
     IN /\ returned.found
        /\ returned.data.ideation_completed
        /\ LeafDone(returned.data, "task-ideation")
        /\ ~LeafDone(returned.data, "task-scaffold")
        /\ LegacyAgrees(returned.data, FALSE)



\* C25: after reconcile, workflow.next_item is the first leaf in pre-order
\* whose status is not complete or skipped (a blocked or pending leaf is
\* returned even if a later leaf is in_progress), and it is the synthetic item
\* with id complete exactly when no such leaf exists.
RECURSIVE FirstOpenLeaf(_)
FirstOpenHere(here, rest) == IF here # "" THEN here ELSE FirstOpenLeaf(rest)

\* the id of the first leaf not complete or skipped, "" when there is none
FirstOpenLeaf(items) ==
  IF items = <<>> THEN ""
  ELSE FirstOpenHere(
         IF Head(items).children # <<>> THEN FirstOpenLeaf(Head(items).children)
         ELSE IF Head(items).status \in {"complete", "skipped"} THEN ""
         ELSE Head(items).id,
         Tail(items))

NextItemIs(first_open, next_item) ==
  /\ first_open # "" => next_item = first_open
  /\ next_item = "complete" <=> first_open = ""

C25_NextItemFirstOpenLeaf ==
  [][NextItemIs(FirstOpenLeaf(data'.workflow.plan), data'.workflow.next_item)]_vars

\* a returned document whose next item is a blocked leaf although the leaf
\* after it is in progress
C25_Witness ==
  /\ data.workflow.next_item = "task-review-a"
  /\ ReturnedItem("task-research").status = "skipped"
  /\ ReturnedItem("task-review-a").status = "blocked"
  /\ ReturnedItem("task-review-b").status = "in_progress"
  /\ ReturnedItem("milestone-foundation").status = "complete"

\* ---- C26: the guard and the commands behind it
\* what the loaded workflow asks for: a leaf with a route of that skill, or
\* a complete workflow with --allow-complete
RouteAsked(workflow, requested_skill, allow_complete) ==
  \/ /\ workflow.next_item # "complete"
     /\ workflow.next_route # ""
     /\ workflow.next_route = requested_skill
  \/ workflow.next_item = "complete" /\ allow_complete

GuardFollows(workflow, outcome) ==
  /\ outcome.exit = 0 <=> RouteAsked(workflow, outcome.requested_skill,
                                     outcome.allow_complete)
  /\ outcome.exit # 0 => outcome.exit = 2

\* a start or complete that the guard turned away left every value alone
TurnedAwayChangesNothing ==
  (/\ result'.cmd \in {"start", "complete"}
   /\ assert_researcher_route(cadence_json, data).exit # 0)
  => /\ result'.exit = 2
     /\ UNCHANGED <<agenda, execution, research_completed, data, cadence_json, ideation_payload>>

\* C26: on a readable document the route guard exits with 0 exactly when the
\* next item is a leaf whose route names the requested skill, or the workflow
\* is complete and --allow-complete is given; otherwise (another skill, a
\* leaf with an empty route, a complete workflow without --allow-complete) it
\* exits with 2, and a command behind the guard then changes nothing.
C26_GuardAcceptsExactly ==
  [][cadence_json = "valid" =>
       /\ result'.cmd = "assert-workflow-route" =>
            GuardFollows(reconcile_workflow_state(data, TRUE).workflow, result')
       /\ TurnedAwayChangesNothing]_vars

\* ---- C30: commands on a file that cannot be loaded
\* C30: when .cadence/cadence.json is not valid JSON or is missing, each of
\* status, start and complete exits with code 1 and writes nothing.
C30_UnloadableExitsOne ==
  [][(cadence_json # "valid" /\ result'.cmd \in {"status", "start", "complete"})
       => /\ result'.exit = 1
          /\ UNCHANGED <<agenda, execution, research_completed, data, cadence_json, ideation_payload>>]_vars

\* ---- C27: one owning block per entity
\* the blocks of an agenda whose topics list the entity
BlocksReferencing(blocks, entity_id) ==
  {blocks[b].block_id :
     b \in {c \in 1..Len(blocks) :
              \E t \in 1..Len(blocks[c].topics) :
                \E i \in 1..Len(blocks[c].topics[t].related_entities) :
                  blocks[c].topics[t].related_entities[i] = entity_id}}

SingleOwner(blocks, entity) ==
  /\ Cardinality(BlocksReferencing(blocks, entity.entity_id)) <= 1
  /\ \A block_id \in BlocksReferencing(blocks, entity.entity_id) :
       entity.owner_block_id = block_id

EveryEntitySingleOwner(returned) ==
  \A i \in 1..Len(returned.entity_registry) :
    SingleOwner(returned.blocks, returned.entity_registry[i])

\* the blocks of a payload whose topics name the entity under the key that
\* is read
ExplicitBlocks(given, entity_id) ==
  {given.blocks[b].block_id :
     b \in {c \in 1..Len(given.blocks) :
              \E t \in 1..Len(given.blocks[c].topics) :
                \E i \in 1..Len(topic_entity_refs(given.blocks[c].topics[t])) :
                  topic_entity_refs(given.blocks[c].topics[t])[i] = entity_id}}

DeclaredOwners(given, entity_id) ==
  {given.entity_registry[i].owner_block_id :
     i \in {j \in 1..Len(given.entity_registry) :
              /\ given.entity_registry[j].entity_id = entity_id
              /\ given.entity_registry[j].owner_block_id # <<>>}}

\* an entity named from two blocks, or from a block that is not its declared
\* owner
ExplicitConflict(given) ==
  \E entity_id \in {EntityX, EntityY} :
    \/ Cardinality(ExplicitBlocks(given, entity_id)) > 1
    \/ \E block_id \in ExplicitBlocks(given, entity_id) :
         \E owner \in DeclaredOwners(given, entity_id) : owner # block_id

\* every declared owner is a block of the agenda, no entity has two of them
OwnersDeclaredWell(given) ==
  \A entity_id \in {EntityX, EntityY} :
    /\ Cardinality(DeclaredOwners(given, entity_id)) <= 1
    /\ DeclaredOwners(given, entity_id) \subseteq BlockIds(given.blocks)

ConflictCodes == {"ENTITY_BLOCK_CONFLICT", "ENTITY_OWNER_MISMATCH"}

Normalized(path) ==
  ideation_payload.stage \in {"normalized", "rejected"} /\ ideation_payload.path = path

\* C27: in every agenda that normalize_ideation_research returns, each
\* entity of the registry is referenced from one block at most, and that
\* block is its owner; a payload that names an entity from two blocks, or
\* from a block other than its declared owner, is rejected, and with
\* ENTITY_BLOCK_CONFLICT or ENTITY_OWNER_MISMATCH when every declared owner
\* is a block of the agenda and no entity is declared with two owners.
C27_SingleOwnerOrRejected ==
  /\ ideation_payload.stage = "normalized" => EveryEntitySingleOwner(ideation_payload)
  /\ (Normalized("normalize") /\ ExplicitConflict(ideation_payload.given))
       => /\ ideation_payload.stage = "rejected"
          /\ OwnersDeclaredWell(ideation_payload.given)
               => ideation_payload.error \in ConflictCodes

\* C27 as stated: the rejection is always one of the two codes
C27_RejectedWithConflictCode ==
  /\ ideation_payload.stage = "normalized" => EveryEntitySingleOwner(ideation_payload)
  /\ (Normalized("normalize") /\ ExplicitConflict(ideation_payload.given))
       => /\ ideation_payload.stage = "rejected"
          /\ ideation_payload.error \in ConflictCodes

\* a returned agenda in which two topics of one block reference the entity,
\* which was declared without an owner and is now owned by that block
C27_Witness ==
  /\ Normalized("normalize") /\ ideation_payload.stage = "normalized"
  /\ Len(ideation_payload.blocks[1].topics) = 2
  /\ \A t \in 1..2 : ideation_payload.blocks[1].topics[t].related_entities = <<EntityX>>
  /\ DeclaredOwners(ideation_payload.given, EntityX) = {}
  /\ \E i \in 1..Len(ideation_payload.entity_registry) :
       /\ ideation_payload.entity_registry[i].entity_id = EntityX
       /\ ideation_payload.entity_registry[i].owner_block_id = BlockA

\* ---- C28: alias inference never links an entity across blocks
\* the blocks and the registry of a payload as they are when inference starts
BlocksBeforeInference(given) == normalize_blocks(given.blocks, 1, {})

RegistryBeforeInference(given) ==
  normalize_registry(given.entity_registry, BlockIds(BlocksBeforeInference(given)), <<>>)

EntitiesBeforeInference(given) ==
  add_referenced_entities(referenced_entity_labels(given.blocks, 1, 1, <<>>),
                          RegistryBeforeInference(given).entities)

RECURSIVE alias_additions(_, _, _, _)
\* every entity that inference adds to a topic, with the block of the topic,
\* the declared owner and the blocks that reference the entity at that moment
alias_additions(blocks, entities, b, t) ==
  IF b > Len(blocks) THEN {}
  ELSE IF t > Len(blocks[b].topics) THEN alias_additions(blocks, entities, b + 1, 1)
  ELSE {[block_id |-> blocks[b].block_id,
         entity_id |-> entity_id,
         owner_block_id |-> EntityAt(entities, entity_id).owner_block_id,
         referenced |-> entity_blocks(blocks, entity_id)] :
          entity_id \in Range(inferred_entities(blocks, entities, blocks[b].block_id,
                                                blocks[b].topics[t]))}
       \cup alias_additions(
              [blocks EXCEPT ![b].topics[t].related_entities =
                 @ \o inferred_entities(blocks, entities, blocks[b].block_id,
                                        blocks[b].topics[t])],
              entities, b, t + 1)

AliasAdditions(given) ==
  IF RegistryBeforeInference(given).error # "" THEN {}
  ELSE alias_additions(BlocksBeforeInference(given), EntitiesBeforeInference(given), 1, 1)

BlocksAfterInference(given) ==
  infer_aliases(BlocksBeforeInference(given), EntitiesBeforeInference(given), 1, 1)

\* the payload with the text of its topics taken away, so that no alias is
\* detected
WithoutAliases(given) ==
  [stage |-> "payload",
   blocks |-> [b \in 1..Len(given.blocks) |->
                 [given.blocks[b] EXCEPT
                    !.topics = [t \in 1..Len(@) |-> [@[t] EXCEPT !.words = {}]]]],
   entity_registry |-> given.entity_registry]

ValidOnExplicitReferences(given) ==
  normalize_ideation_research(WithoutAliases(given)).stage = "normalized"

InferenceIntroducesNoCrossLink(given) ==
  RegistryBeforeInference(given).error = ""
    => \A entity_id \in EntityIds(EntitiesBeforeInference(given)) :
         Cardinality(entity_blocks(BlocksBeforeInference(given), entity_id)) <= 1
           => Cardinality(entity_blocks(BlocksAfterInference(given), entity_id)) <= 1

\* C28: alias inference adds an entity to a topic only if the declared owner
\* of the entity, when present, is the block of the topic, and the entity is
\* referenced from no block yet or from the block of the topic already; a
\* payload that validates on its explicit references alone is never rejected,
\* and inference never makes an entity referenced from two blocks, in
\* whatever order the blocks come.
C28_InferenceKeepsSingleBlock ==
  Normalized("normalize")
    => /\ \A added \in AliasAdditions(ideation_payload.given) :
            /\ added.owner_block_id \in {<<>>, added.block_id}
            /\ added.referenced = {} \/ added.block_id \in added.referenced
       /\ ValidOnExplicitReferences(ideation_payload.given)
            => ideation_payload.stage = "normalized"
       /\ InferenceIntroducesNoCrossLink(ideation_payload.given)

\* C28 as stated: an entity is added only when no other block references it
C28_AddedOnlyWhenNoOtherBlock ==
  Normalized("normalize")
    => /\ \A added \in AliasAdditions(ideation_payload.given) :
            /\ added.owner_block_id \in {<<>>, added.block_id}
            /\ added.referenced \subseteq {added.block_id}
       /\ ValidOnExplicitReferences(ideation_payload.given)
            => ideation_payload.stage = "normalized"
       /\ InferenceIntroducesNoCrossLink(ideation_payload.given)

\* topics of two blocks mention the alias of an entity that no topic lists:
\* the topic of the first block gets the entity, the other one does not, and
\* the agenda is returned
C28_Witness ==
  /\ Normalized("normalize") /\ ideation_payload.stage = "normalized"
  /\ Len(ideation_payload.blocks) = 2
  /\ \A b \in 1..2 :
       /\ Len(ideation_payload.given.blocks[b].topics) = 1
       /\ ideation_payload.given.blocks[b].topics[1].words = {AliasX}
       /\ topic_entity_refs(ideation_payload.given.blocks[b].topics[1]) = <<>>
  /\ ideation_payload.blocks[1].block_id = BlockB
  /\ ideation_payload.blocks[1].topics[1].related_entities = <<EntityX>>
  /\ ideation_payload.blocks[2].topics[1].related_entities = <<>>
  /\ Cardinality(AliasAdditions(ideation_payload.given)) = 1

\* ---- C29: the auto-repair path
SeveralBlocksReference(given) ==
  \E entity_id \in {EntityX, EntityY} : Cardinality(ExplicitBlocks(given, entity_id)) > 1

\* every reference of a topic is to an entity that the topic's block owns
TopicsReferenceOwnEntities(returned) ==
  \A b \in 1..Len(returned.blocks) :
    \A t \in 1..Len(returned.blocks[b].topics) :
      \A i \in 1..Len(returned.blocks[b].topics[t].related_entities) :
        /\ returned.blocks[b].topics[t].related_entities[i]
             \in EntityIds(returned.entity_registry)
        /\ EntityAt(returned.entity_registry,
                    returned.blocks[b].topics[t].related_entities[i]).owner_block_id
             = returned.blocks[b].block_id

\* in what repair hands to the validator, a block that references an entity
\* of the payload owned by another block references its clone
ClonesNamedByBlock(given, repaired) ==
  \A b \in 1..Len(given.blocks) :
    \A t \in 1..Len(given.blocks[b].topics) :
      \A i \in 1..Len(given.blocks[b].topics[t].related_entities) :
        repaired.blocks[b].topics[t].related_entities[i]
          \in {given.blocks[b].topics[t].related_entities[i],
               given.blocks[b].topics[t].related_entities[i]
                 \o <<"-", "-">> \o given.blocks[b].block_id}

\* C29: on the auto-repair path a payload in which topics of several blocks
\* reference the same entity is never rejected with ENTITY_BLOCK_CONFLICT or
\* ENTITY_OWNER_MISMATCH; the blocks other than the owner reference a clone
\* named {entity_id}--{block_id}, and in the returned agenda every topic
\* references only entities owned by its own block.
C29_RepairNeverRejected ==
  (Normalized("repair") /\ SeveralBlocksReference(ideation_payload.given))
    => /\ ideation_payload.error \notin ConflictCodes
       /\ ClonesNamedByBlock(ideation_payload.given,
                             repair_research_entity_links(ideation_payload.given))
       /\ ideation_payload.stage = "normalized"
            => TopicsReferenceOwnEntities(ideation_payload)

\* ---- C31: complete takes the pass in progress only
InProgressIn(queue, pass_id) ==
  \E i \in 1..Len(queue) : queue[i].pass_id = pass_id /\ queue[i].status = "in_progress"

PassIds(entries) == {entries[i].pass_id : i \in 1..Len(entries)}

\* C31: complete is accepted only for a pass that is in_progress in the
\* queue; for a pass id that is pending, archived or unknown it exits 2 with
\* IN_PROGRESS_PASS_NOT_FOUND and persists nothing.  An accepted complete
\* archives the pass it names, which was not archived before and is queued no
\* longer, and only start moves a queued pass to in_progress: every archived
\* pass was started before it was completed, and none is completed twice.
C31_CompleteOnlyInProgress ==
  [][/\ (result'.cmd = "complete"
          /\ ~InProgressIn(execution.pass_queue, result'.pass_arg))
         => /\ result'.exit = 2
            /\ result'.error = "IN_PROGRESS_PASS_NOT_FOUND"
            /\ execution' = execution
            /\ research_completed' = research_completed
     /\ CompleteAccepted
         => /\ InProgressIn(execution.pass_queue, result'.pass_arg)
            /\ result'.pass_arg \notin PassIds(execution.pass_history)
            /\ result'.pass_arg \notin PassIds(execution'.pass_queue)
            /\ Len(execution'.pass_history) = Len(execution.pass_history) + 1
            /\ execution'.pass_history[Len(execution'.pass_history)].pass_id
                 = result'.pass_arg
     /\ Len(execution'.pass_history) > Len(execution.pass_history)
         => CompleteAccepted
     /\ \A i \in 1..Len(execution'.pass_queue) :
          (/\ execution'.pass_queue[i].status = "in_progress"
           /\ ~InProgressIn(execution.pass_queue, execution'.pass_queue[i].pass_id))
            => result'.cmd = "start" /\ result'.exit = 0]_vars

\* a complete naming the pass archived last was turned away while the next
\* pass was in progress and another one pending
C31_Witness ==
  /\ result.cmd = "complete" /\ result.exit = 2
  /\ result.error = "IN_PROGRESS_PASS_NOT_FOUND"
  /\ result.pass_arg \in PassIds(execution.pass_history)
  /\ HasStatus(execution.pass_queue, "in_progress")

\* ---- C32: the history only grows
\* the entries archived before the step are the first entries after it
HistoryKept ==
  /\ Len(execution'.pass_history) >= Len(execution.pass_history)
  /\ SubSeq(execution'.pass_history, 1, Len(execution.pass_history))
       = execution.pass_history

\* the queue before the step without the pass the command names
OtherPasses ==
  SelectSeq(execution.pass_queue, LAMBDA entry : entry.pass_id # result'.pass_arg)

InProgressPasses(queue) == {i \in 1..Len(queue) : queue[i].status = "in_progress"}

\* C33: in every persisted document at most one entry of pass_queue has
\* status in_progress.
C33_OneInProgress == Cardinality(InProgressPasses(execution.pass_queue)) <= 1

\* a start asked for again while a pass of a later round is in progress and
\* another pass is waiting: one entry is in progress
C33_Witness ==
  /\ result.cmd = "start" /\ result.resumed
  /\ Cardinality(InProgressPasses(execution.pass_queue)) = 1
  /\ Len(execution.pass_queue) >= 2
  /\ execution.pass_history # <<>>

\* ---- C34: no handoff in the middle of a pass
\* C34: in every persisted document handoff_required implies that no pass of
\* the queue is in_progress.
C34_NoHandoffMidPass ==
  execution.handoff_required => InProgressPasses(execution.pass_queue) = {}

\* a complete left the handoff demanded with the next pass of the round
\* waiting, none in progress
C34_Witness ==
  /\ result.cmd = "complete" /\ result.exit = 0
  /\ execution.handoff_required
  /\ HasStatus(execution.pass_queue, "pending")
  /\ InProgressPasses(execution.pass_queue) = {}

\* ---- C35: the cap on the passes of a topic
\* the command of this step was accepted, so the document is the one it saved
PersistedByCommand == result'.cmd \in {"start", "complete"} /\ result'.exit = 0

StoredTopicCap(planning) == PlanningGet(planning, "max_passes_per_topic")

\* C35: in every document persisted by start or complete no topic's
\* passes_attempted exceeds the max_passes_per_topic of its planning block,
\* and the pass a start returns holds no topic that has reached it.
C35_TopicCapBound ==
  [][PersistedByCommand =>
       /\ \A t \in Topics :
            execution'.topic_status[t].passes_attempted
              <= StoredTopicCap(execution'.planning)
       /\ (result'.cmd = "start" /\ result'.pass # <<>>)
            => \A t \in Range(result'.pass[1].topic_ids) :
                 execution'.topic_status[t].passes_attempted
                   < StoredTopicCap(execution'.planning)]_vars

\* a start has returned a pass while a topic that has used up its passes is
\* left out of it and of every queued pass
C35_Witness ==
  /\ result.cmd = "start" /\ result.exit = 0 /\ result.pass # <<>>
  /\ \E t \in Topics :
       /\ execution.topic_status[t].passes_attempted
            = StoredTopicCap(execution.planning)
       /\ execution.topic_status[t].status = "complete_with_caveats"
       /\ t \notin QueuedTopics(execution.pass_queue)

\* ---- C36: the cap on the passes of a run
StoredTotalCap(planning) == PlanningGet(planning, "max_total_passes")

\* C36: pass_history never grows longer than the max_total_passes of the
\* persisted planning block, and once it is that long a start returns no pass
\* and leaves no pass in progress.
C36_TotalCapBound ==
  [][/\ Len(execution'.pass_history) <= StoredTotalCap(execution'.planning)
     /\ (/\ result'.cmd = "start"
         /\ Len(execution.pass_history) >= StoredTotalCap(execution.planning))
          => /\ result'.pass = <<>>
             /\ InProgressPasses(execution'.pass_queue) = {}]_vars

\* the history is as long as the cap allows, a topic that was never completed
\* is closed with caveats, and start reports the research complete
C36_Witness ==
  /\ result.cmd = "start" /\ result.exit = 0
  /\ result.pass = <<>> /\ result.research_complete
  /\ Len(execution.pass_history) = StoredTotalCap(execution.planning)
  /\ \E t \in Topics :
       /\ execution.topic_status[t].status = "complete_with_caveats"
       /\ execution.topic_status[t].passes_attempted
            < StoredTopicCap(execution.planning)

\* ---- C37: pass ids
NoSharedPassId(entries) ==
  \A i, j \in 1..Len(entries) : entries[i].pass_id = entries[j].pass_id => i = j

\* C37: no two entries of pass_history share a pass_id, no two entries of
\* pass_queue share one, and no queued pass has the pass_id of an archived
\* pass.
C37_PassIdsUnique ==
  /\ NoSharedPassId(execution.pass_history)
  /\ NoSharedPassId(execution.pass_queue)
  /\ PassIds(execution.pass_queue) \cap PassIds(execution.pass_history) = {}

\* passes of two rounds are archived and a pass of a later round is queued
\* that has the place in its round an archived pass has in its own
C37_Witness ==
  /\ \E i, j \in 1..Len(execution.pass_history) :
       execution.pass_history[i].round # execution.pass_history[j].round
  /\ \E i \in 1..Len(execution.pass_queue), j \in 1..Len(execution.pass_history) :
       /\ execution.pass_queue[i].pass_id[2] = execution.pass_history[j].pass_id[2]
       /\ execution.pass_queue[i].pass_id[1] > execution.pass_history[j].pass_id[1]

\* ---- C38: the topics of the queue
\* the places of the queue that hold topic t
QueuePlaces(queue, t) ==
  {place \in (1..Len(queue)) \X (1..Cardinality(Topics)) :
     /\ place[2] <= Len(queue[place[1]].topic_ids)
     /\ queue[place[1]].topic_ids[place[2]] = t}

\* C38: in every document persisted by start or complete no topic id appears
\* in two queued passes, and every topic id of a queued pass belongs to a
\* topic that is pending, in_progress or needs_followup; right after a replan
\* every unresolved topic appears in exactly one queued pass.
C38_QueueTopics ==
  [][PersistedByCommand =>
       /\ \A t \in Topics :
            /\ Cardinality(QueuePlaces(execution'.pass_queue, t)) <= 1
            /\ QueuePlaces(execution'.pass_queue, t) # {}
                 => execution'.topic_status[t].status
                      \in {"pending", "in_progress", "needs_followup"}
       /\ Replanned
            => \A t \in unresolved_topics(execution') :
                 Cardinality(QueuePlaces(execution'.pass_queue, t)) = 1]_vars

\* a later round is queued in more than one pass while a topic is resolved
\* and in no pass, and a topic that needs a follow-up is queued once
C38_Witness ==
  /\ result.cmd \in {"start", "complete"} /\ result.exit = 0
  /\ execution.planning.latest_round >= 2
  /\ Len(execution.pass_queue) >= 2
  /\ \E t \in Topics :
       /\ execution.topic_status[t].status \in TOPIC_COMPLETE_STATUSES
       /\ QueuePlaces(execution.pass_queue, t) = {}
  /\ \E t \in Topics :
       /\ execution.topic_status[t].status = "needs_followup"
       /\ Cardinality(QueuePlaces(execution.pass_queue, t)) = 1

\* ---- C39: the finished workflow
TopLevelStatuses(plan) == {plan[i].status : i \in 1..Len(plan)}

ReportedComplete == result.cmd = "start" /\ result.exit = 0 /\ result.research_complete

\* C40: a caller that keeps alternating start (acknowledging every pending
\* handoff) and complete with a full valid payload, whatever the payloads
\* report, is told research_complete by a start after finitely many passes,
\* and from then on no start returns a pass.
C40_ResearchTerminates ==
  /\ <>ReportedComplete
  /\ [](ReportedComplete => [](result.cmd = "start" => result.pass = <<>>))

\* start reports research_complete and returns no pass after every topic
\* that was open used up its passes without being resolved
C40_Witness ==
  /\ ReportedComplete /\ result.pass = <<>>
  /\ Len(execution.pass_history) >= 3
  /\ \E t, u \in Topics :
       /\ t # u
       /\ \A v \in {t, u} :
            /\ execution.topic_status[v].passes_attempted
                 = StoredTopicCap(execution.planning)
            /\ execution.topic_status[v].status = "complete_with_caveats"

====
